---- MODULE Spec2Model ----
(***************************************************************************)
(* searchgoat-jupyter: the OAuth2 token cache (auth.py), job submission    *)
(* and status polling (client.py, job.py), the pagination of results       *)
(* (pagination.py) and the query workflow (client.py).                     *)
(*                                                                         *)
(* Each task is one coroutine running on the event loop.  The code between *)
(* two awaits runs atomically, so one action is the code from one await    *)
(* (an HTTP response arriving, a sleep ending) up to the next await.       *)
(***************************************************************************)
EXTENDS Integers, Sequences, FiniteSets, TLC

VARIABLES
    now,         \* time.time(), in whole seconds
    token,       \* TokenManager._token
    expires_at,  \* TokenManager._expires_at
    jobs,        \* the SearchJob objects created so far, by slot
    tasks,       \* per coroutine: position, locals, result
    reply,       \* the HTTP response (or transport failure) delivered by the last step
    cleared,     \* history: "no", or what clear() found in the cache ("valid",
                 \* "invalid") if the cache has not been written since
    client       \* SearchClient._client and the connection pools made so far

vars == <<now, token, expires_at, jobs, tasks, reply, cleared, client>>

-----------------------------------------------------------------------------
(* Bounds of the model *)

MaxTime == 2
MaxJobs == 2
MaxTotal == 3
MaxPools == 2

\* the jobs a caller who does one thing after the other submits
MaxSubmits == 1

\* no pagination of the model sends more requests than this
MaxRequests == MaxTotal + 1

Tasks == {"t1", "t2"}

-----------------------------------------------------------------------------
(* Values *)

None == "None"
NoInt == -1

REFRESH_BUFFER_SECONDS == 300
DefaultExpiresIn == 86400
DefaultRetryAfter == 60
DefaultNumEvents == 0
DefaultTotal == 0
DefaultPageSize == 1000
QueryPollInterval == 2

Tokens == {"tok-a", "tok-b"}
JobIds == {"job-a", "job-b"}
Texts == {"Invalid query syntax", "boom"}

\* expires_in values the auth server may send (NoInt: the field is absent)
ExpiresIns == {NoInt, 1, 300, 301, 302}

\* JobStatus values (NEW is a reserved word of TLA+, hence the prefix)
S_NEW == "new"
S_QUEUED == "queued"
S_RUNNING == "running"
S_COMPLETED == "completed"
S_FAILED == "failed"
S_CANCELED == "canceled"
JobStatus == {S_NEW, S_QUEUED, S_RUNNING, S_COMPLETED, S_FAILED, S_CANCELED}
NonTerminal == {S_NEW, S_QUEUED, S_RUNNING}
Terminal == {S_COMPLETED, S_FAILED, S_CANCELED}

\* arguments of wait()
Timeouts == {0, 1, 2}
PollIntervals == {1, 2}

\* page_size arguments of paginate_results()
PageSizes == {1, 2}

\* Exceptions: kind, the number and the text the message or attribute
\* carries, and the job_id attribute.
Error(kind, num, text, job_id) ==
    [kind |-> kind, num |-> num, text |-> text, job_id |-> job_id]
NoError == Error(None, NoInt, None, None)

-----------------------------------------------------------------------------
(* HTTP responses.  status 0 stands for a transport failure                *)
(* (httpx.RequestError: connection refused, timeout, ...).                 *)

NetworkFailure == 0

\* response.raise_for_status() raises httpx.HTTPStatusError unless 2xx
Is2xx(code) == code >= 200 /\ code <= 299

AuthReplies ==
    {[status |-> s, access_token |-> k, expires_in |-> e, text |-> None] :
        s \in {200, 201}, k \in Tokens, e \in ExpiresIns}
    \cup {[status |-> s, access_token |-> None, expires_in |-> NoInt, text |-> x] :
        s \in {302, 401, 500}, x \in {"invalid_client"}}
    \cup {[status |-> NetworkFailure, access_token |-> None, expires_in |-> NoInt,
           text |-> "Connection refused"]}

\* The Retry-After header: absent, or a string (a sequence of characters)
NoHeader == [present |-> FALSE, value |-> <<>>]
Header(v) == [present |-> TRUE, value |-> v]
RetryAfterHeaders ==
    {NoHeader, Header(<<"1", "2", "0">>), Header(<<"7">>), Header(<<" ", "3", "0">>),
     Header(<<"W", "e", "d", ",", " ", "2", "1">>)}

SubmitReplies ==
    {[status |-> s, id |-> j, text |-> None, retry_after |-> NoHeader] :
        s \in {200, 201}, j \in JobIds}
    \cup {[status |-> 400, id |-> None, text |-> x, retry_after |-> NoHeader] :
        x \in Texts}
    \cup {[status |-> 429, id |-> None, text |-> None, retry_after |-> h] :
        h \in RetryAfterHeaders}
    \cup {[status |-> s, id |-> None, text |-> None, retry_after |-> h] :
        s \in {302, 404, 500, NetworkFailure}, h \in {NoHeader, Header(<<"7">>)}}

\* items[0] of a status response: status string, numEvents and error
\* (NoInt and None: the field is absent)
StatusReplies ==
    {[status |-> 200, state |-> st, numEvents |-> NoInt, error |-> None] :
        st \in NonTerminal \cup {S_CANCELED, "bogus"}}
    \cup {[status |-> 200, state |-> S_COMPLETED, numEvents |-> n, error |-> None] :
        n \in {NoInt, 0, 10}}
    \cup {[status |-> 200, state |-> S_FAILED, numEvents |-> NoInt, error |-> e] :
        e \in {None, "Dataset not found"}}
    \cup {[status |-> s, state |-> None, numEvents |-> NoInt, error |-> None] :
        s \in {404, 500, NetworkFailure}}

NoReply == [status |-> NoInt]

\* The characters of a results body (NDJSON).  A JSON object is taken as one
\* character: its totalEventCount (NoInt: it has none) and the id of the
\* record it stands for (0: it is no record).
NL == [c |-> "\n", total |-> NoInt, id |-> 0, finished |-> None]
SP == [c |-> " ", total |-> NoInt, id |-> 0, finished |-> None]
Doc(total, id) == [c |-> "{}", total |-> total, id |-> id, finished |-> None]
Whitespace == {NL, SP}

\* the records at positions a+1 .. b of a result set
Ids(a, b) == [i \in 1..(b - a) |-> a + i]

\* what the server may put after the newline of a line: nothing, or an
\* empty line, a line of blanks and a blank before the next object
Gaps == {<<>>, <<NL, SP, NL, SP>>}

RECURSIVE Lines(_, _)
Lines(docs, gap) ==
    IF docs = <<>> THEN <<>>
    ELSE <<Head(docs), NL>> \o gap \o Lines(Tail(docs), gap)

\* a body as the server writes it: the metadata line, then one line per record
Body(m, ids, gap) ==
    Lines(<<Doc(m, 0)>> \o [i \in 1..Len(ids) |-> Doc(NoInt, ids[i])], gap)

\* a results response; meta, ids and gap tell what the server put in the body
PageReply(m, ids, gap) ==
    [status |-> 200, body |-> Body(m, ids, gap), meta |-> m, ids |-> ids, gap |-> gap]

EmptyBodies == {<<>>, <<NL>>, <<SP, NL>>}

\* the response r with "isFinished": fin in its metadata line
WithFlag(r, fin) ==
    [r EXCEPT !.body = <<[Head(r.body) EXCEPT !.finished = fin]>> \o Tail(r.body)]

PageFailures ==
    {[status |-> s, body |-> <<>>, meta |-> NoInt, ids |-> <<>>, gap |-> <<>>] :
        s \in {302, 404, 500, NetworkFailure}}

\* totalEventCount values the server may report (NoInt: the field is absent)
Metas == {NoInt} \cup 0..MaxTotal

\* totals a server may report to query(), which asks for pages of 1000
QueryMetas == {NoInt, 0, 2, DefaultPageSize + 1}

Min(a, b) == IF a <= b THEN a ELSE b

\* the answers to GET results?limit=..&offset=.. that carry a page: a total
\* out of metas, at most limit records from the position asked for
PagesFor(q, metas, gaps) ==
    {PageReply(m, Ids(q.offset, q.offset + k), g) :
        m \in metas, k \in 0..Min(q.limit, MaxTotal), g \in gaps}

EmptyReplies ==
    {[status |-> 200, body |-> b, meta |-> NoInt, ids |-> <<>>, gap |-> <<>>] :
        b \in EmptyBodies}

\* pages whose metadata say whether the result set is finished, or do not
FlaggedPageReplies(q) ==
    {WithFlag(r, fin) : r \in PagesFor(q, Metas, {<<>>}), fin \in {None, "true", "false"}}

\* every answer: a page, an empty body, or a failure
PageReplies(q) == PagesFor(q, Metas, Gaps) \cup EmptyReplies \cup PageFailures

-----------------------------------------------------------------------------
(* Pure helpers *)

Max(a, b) == IF a >= b THEN a ELSE b

DigitVal ==
    ("0" :> 0) @@ ("1" :> 1) @@ ("2" :> 2) @@ ("3" :> 3) @@ ("4" :> 4) @@
    ("5" :> 5) @@ ("6" :> 6) @@ ("7" :> 7) @@ ("8" :> 8) @@ ("9" :> 9)

RECURSIVE LStrip(_)
LStrip(s) == IF s # <<>> /\ Head(s) = " " THEN LStrip(Tail(s)) ELSE s

RECURSIVE RStrip(_)
RStrip(s) ==
    IF s # <<>> /\ s[Len(s)] = " " THEN RStrip(SubSeq(s, 1, Len(s) - 1)) ELSE s

RECURSIVE DigitsValue(_, _)
DigitsValue(s, acc) ==
    IF s = <<>> THEN acc ELSE DigitsValue(Tail(s), acc * 10 + DigitVal[Head(s)])

\* Python's int(str): surrounding blanks stripped, an optional sign, then
\* decimal digits only; anything else raises ValueError (ok = FALSE).
PyInt(s) ==
    LET u == RStrip(LStrip(s))
        signed == u # <<>> /\ Head(u) \in {"+", "-"}
        digits == IF signed THEN Tail(u) ELSE u
    IN  IF digits = <<>> \/ \E i \in 1..Len(digits) : digits[i] \notin DOMAIN DigitVal
        THEN [ok |-> FALSE, val |-> 0]
        ELSE [ok |-> TRUE,
              val |-> (IF Head(u) = "-" THEN -1 ELSE 1) * DigitsValue(digits, 0)]

\* int(response.headers.get("Retry-After", 60))
RetryAfter(h) ==
    IF h.present THEN PyInt(h.value) ELSE [ok |-> TRUE, val |-> DefaultRetryAfter]

\* str.strip(): blanks and newlines at both ends removed
RECURSIVE Strip(_)
Strip(s) ==
    IF s # <<>> /\ Head(s) \in Whitespace THEN Strip(Tail(s))
    ELSE IF s # <<>> /\ s[Len(s)] \in Whitespace THEN Strip(SubSeq(s, 1, Len(s) - 1))
    ELSE s

\* str.split("\n"): the pieces between the newlines, one piece for a text
\* without newline, the empty text included
RECURSIVE Split(_)
Split(s) ==
    IF \A i \in 1..Len(s) : s[i] # NL THEN <<s>>
    ELSE LET i == CHOOSE i \in 1..Len(s) : s[i] = NL /\ \A k \in 1..(i - 1) : s[k] # NL
         IN  <<SubSeq(s, 1, i - 1)>> \o Split(SubSeq(s, i + 1, Len(s)))

\* json.loads(line): one object, blanks around it allowed; anything else
\* (the empty text too) raises JSONDecodeError (ok = FALSE)
JsonLoads(line) ==
    LET u == Strip(line)
    IN  IF Len(u) = 1 /\ u[1].c = "{}" THEN [ok |-> TRUE, doc |-> u[1]]
        ELSE [ok |-> FALSE, doc |-> NL]

\* mutant: .get("totalEventCount") without the default
TotalEventCountNoDefault(doc) == doc.total

\* mutant: the total looked up under a key the metadata never has
TotalEventCountWrongKey(doc) == DefaultTotal

\* metadata.get("totalEventCount", 0)
TotalEventCount(doc) == IF doc.total = NoInt THEN DefaultTotal ELSE doc.total

-----------------------------------------------------------------------------
(* TokenManager *)

\* mutant: the refresh buffer taken one second too long
IsTokenValidEarlyRefresh(tok, exp, t) ==
    IF tok = None THEN FALSE ELSE t < exp - (REFRESH_BUFFER_SECONDS + 1)

\* mutant: <= for <, a token with exactly the buffer left is still used
IsTokenValidInclusive(tok, exp, t) ==
    IF tok = None THEN FALSE ELSE t <= exp - REFRESH_BUFFER_SECONDS

\* mutant: a token that is there is used, whatever its expiry
IsTokenValidAnyToken(tok, exp, t) == tok # None

IsTokenValid(tok, exp, t) ==
    IF tok = None THEN FALSE ELSE t < exp - REFRESH_BUFFER_SECONDS

\* mutant: every token is taken to last a day
ExpiresAtAlwaysDefault(r, t) == t + DefaultExpiresIn

\* time.time() + data.get("expires_in", 86400)
ExpiresAt(r, t) ==
    t + (IF r.expires_in = NoInt THEN DefaultExpiresIn ELSE r.expires_in)

\* mutant: the except clause for httpx.RequestError is missing
AuthFailureNoRequestError(r) ==
    IF r.status = NetworkFailure
    THEN Error("RequestError", NoInt, r.text, None)
    ELSE Error("AuthenticationError", r.status, r.text, None)

\* mutant: the failure of the exchange is swallowed
AuthFailureSwallowed(r) == NoError

\* the except clauses of _authenticate
AuthFailure(r) ==
    IF r.status = NetworkFailure
    THEN Error("AuthenticationError", NoInt, r.text, None)
    ELSE Error("AuthenticationError", r.status, r.text, None)

\* mutant: clear() assigns to locals, the attributes keep their values
ClearedCacheLocalsOnly == [token |-> token, expires_at |-> expires_at]

\* mutant: clear() forgets the token and keeps the expiry
ClearedCacheTokenOnly == [token |-> None, expires_at |-> expires_at]

\* what clear() leaves in the cache
ClearedCache == [token |-> None, expires_at |-> 0]

-----------------------------------------------------------------------------
(* Tasks and jobs *)

NoJob == [id |-> None, status |-> None, record_count |-> NoInt]
NewJob(id) == [id |-> id, status |-> S_NEW, record_count |-> NoInt]

Slots == 1..MaxJobs
FreeSlots == {j \in Slots : jobs[j] = NoJob}
\* mutant: a submission reuses the Job object of the first submission
FirstFreeReusesFirst == CHOOSE j \in Slots : \A k \in Slots : j <= k

FirstFree == CHOOSE j \in FreeSlots : \A k \in FreeSlots : j <= k

\* the sequential caller has not submitted all its jobs yet
MaySubmit == Cardinality(Slots \ FreeSlots) < MaxSubmits

\* A path: its name cut before every dot but a leading one, last part last.
Paths == {<<"out", ".parquet">>, <<"out", ".csv">>, <<"out", ".json">>,
          <<"out", ".csv", ".json">>, <<"out">>}

\* Path(path).suffix
Suffix(path) == IF Len(path) > 1 THEN path[Len(path)] ELSE ""

\* Path(path).resolve(): the path made absolute
Resolve(path) == <<"/cwd/">> \o path

NoFile == [path |-> <<>>, format |-> None]

\* A header mapping: every name to its value, NoHeader where it has none.
HeaderNames == {"Authorization", "Accept", "Content-Type"}

\* headers = {}
NoHeaders == [n \in HeaderNames |-> NoHeader]

\* the mappings a caller hands to paginate_results
CallerHeaders ==
    {h \in [HeaderNames -> {NoHeader, Header(<<"Bearer", "x">>),
                                      Header(<<"application/json">>)}] :
        /\ h["Authorization"] \in {NoHeader, Header(<<"Bearer", "x">>)}
        /\ h["Accept"] \in {NoHeader, Header(<<"application/json">>)}
        /\ h["Content-Type"] \in {NoHeader, Header(<<"application/json">>)}}

\* SearchClient._get_headers()
ClientHeaders(tok) ==
    [n \in HeaderNames |->
        CASE n = "Authorization" -> Header(<<"Bearer", tok>>)
          [] n = "Content-Type" -> Header(<<"application/json">>)
          [] OTHER -> NoHeader]

NdjsonAccept == Header(<<"application/x-ndjson">>)

\* mutant: the request carries the Accept header alone
RequestHeadersAcceptOnly(h) == [NoHeaders EXCEPT !["Accept"] = NdjsonAccept]

\* {**headers, "Accept": "application/x-ndjson"}: a new mapping
RequestHeaders(h) == [h EXCEPT !["Accept"] = NdjsonAccept]

IdleTask ==
    [pc |-> "idle", op |-> None, ret |-> None, err |-> NoError, hdr |-> None,
     headers |-> NoHeaders,  \* the mapping paginate_results was handed, as it is now
     given |-> NoHeaders,    \* history: that mapping as it was at the call
     sent |-> <<>>,          \* the headers of the status and results requests sent
     job |-> 0, start_time |-> 0, timeout |-> 0, poll_interval |-> 0,
     wake_at |-> 0, auths |-> 0, posts |-> 0, polls |-> 0, nonterm |-> 0,
     outer |-> None,       \* "query" while query_async runs the operation,
                           \* "to_dataframe", "save", "stream" for those of a job
     pool |-> 0,           \* the pool __aexit__ is closing
     path |-> <<>>,        \* the path handed to save
     file |-> NoFile,      \* the file save has written
     page_size |-> 0, offset |-> 0, total_count |-> NoInt,
     lines |-> <<>>,       \* the lines of the page not looked at yet
     out |-> <<>>,         \* the records yielded so far
     reqs |-> <<>>,        \* the results requests sent so far (limit, offset)
     pages |-> <<>>]       \* history: the 2xx answers to the results requests

Raise(rec, e) == [rec EXCEPT !.pc = "done", !.err = e]

\* self._client = None; the pools are numbered in the order they are made,
\* cur is the one self._client refers to (0 for None), open the ones made
\* and not closed
NoClient == [cur |-> 0, open |-> {}, made |-> 0]

\* self._client = httpx.AsyncClient(timeout=30.0)
NewPool(c) ==
    [cur |-> c.made + 1, open |-> c.open \cup {c.made + 1}, made |-> c.made + 1]

\* _get_client(): the pool held, or a new one if none is held
GetClient(c) == IF c.cur = 0 THEN NewPool(c) ELSE c

\* mutant: the message of JobTimeoutError leaves out the job id
JobTimeoutNoId(rec) ==
    Error("JobTimeoutError", rec.timeout, "did not complete within", None)

JobTimeout(rec) ==
    Error("JobTimeoutError", rec.timeout, "did not complete within", jobs[rec.job].id)

\* mutant: >= for >, the call times out when the timeout is just reached
TimedOutInclusive(rec, t) == t - rec.start_time >= rec.timeout

TimedOut(rec, t) == t - rec.start_time > rec.timeout

\* mutant: the status GET is sent without the timeout check before it
LoopHeadNoCheck(rec, t) ==
    [rec EXCEPT !.pc = "status_wait", !.polls = @ + 1,
                !.sent = Append(@, ClientHeaders(rec.hdr))]

\* mutant: the headers are built anew from the cache in every iteration
LoopHeadCacheToken(rec, t) ==
    IF TimedOut(rec, t)
    THEN Raise(rec, JobTimeout(rec))
    ELSE [rec EXCEPT !.pc = "status_wait", !.polls = @ + 1,
                     !.sent = Append(@, ClientHeaders(token))]

\* The head of the polling loop: the timeout check, then the status GET.
LoopHead(rec, t) ==
    IF TimedOut(rec, t)
    THEN Raise(rec, JobTimeout(rec))
    ELSE [rec EXCEPT !.pc = "status_wait", !.polls = @ + 1,
                     !.sent = Append(@, ClientHeaders(rec.hdr))]

\* mutant: the offset is kept on the client, one for all paginations
SendPageSharedOffset(rec) ==
    LET far == CHOOSE u \in Tasks : \A v \in Tasks : tasks[u].offset >= tasks[v].offset
        shared == Max(rec.offset, tasks[far].offset)
    IN  [rec EXCEPT !.pc = "page_wait",
                    !.reqs = Append(@, [limit |-> rec.page_size, offset |-> shared]),
                    !.sent = Append(@, RequestHeaders(rec.headers))]

\* client.get(url, params = {"limit": page_size, "offset": offset}, ...)
SendPage(rec) ==
    [rec EXCEPT !.pc = "page_wait",
                !.reqs = Append(@, [limit |-> rec.page_size, offset |-> rec.offset]),
                !.sent = Append(@, RequestHeaders(rec.headers))]

\* The caller's code from the return of get_token to its next await.
AfterToken(rec, tok, t) ==
    CASE rec.op = "get_token" -> [rec EXCEPT !.pc = "done", !.ret = tok]
      [] rec.op = "submit" ->
            [rec EXCEPT !.pc = "post_wait", !.hdr = tok, !.posts = @ + 1]
      [] rec.op = "wait" -> LoopHead([rec EXCEPT !.hdr = tok], t)
      [] rec.op = "stream" ->
            SendPage([rec EXCEPT !.hdr = tok, !.offset = 0, !.total_count = NoInt,
                                 !.headers = ClientHeaders(tok),
                                 !.given = ClientHeaders(tok)])

\* mutant: while an exchange is in flight no second one is sent, the caller
\* gets what the cache holds
GetTokenEntryOneInFlight(rec) ==
    IF IsTokenValid(token, expires_at, now) \/ \E u \in Tasks : tasks[u].pc = "auth_wait"
    THEN AfterToken(rec, token, now)
    ELSE [rec EXCEPT !.pc = "auth_wait", !.auths = @ + 1]

\* get_token up to its first await: a valid cached token is returned at
\* once, otherwise the credential exchange is sent.
GetTokenEntry(rec) ==
    IF IsTokenValid(token, expires_at, now)
    THEN AfterToken(rec, token, now)
    ELSE [rec EXCEPT !.pc = "auth_wait", !.auths = @ + 1]

\* mutant: query_async collects the results right after submit
NextPhaseSkipsWait(rec) == [rec EXCEPT !.op = "stream", !.page_size = DefaultPageSize]

\* query_async: submit_async, then _wait_for_job(job, poll_interval = 2.0,
\* timeout), then _get_results_as_dataframe(job)
NextPhase(rec) ==
    IF rec.op = "submit"
    THEN [rec EXCEPT !.op = "wait", !.start_time = now,
                     !.poll_interval = QueryPollInterval]
    ELSE [rec EXCEPT !.op = "stream", !.page_size = DefaultPageSize]

\* ValueError(f"Unsupported file extension: {path.suffix}. Use .parquet or .csv")
UnsupportedExtension(suffix) ==
    Error("ValueError", NoInt,
          <<"Unsupported file extension: ", suffix, ". Use ", ".parquet", " or ", ".csv">>,
          None)

\* mutant: the frame is written as CSV whatever the extension is
SavedAnyExtension(rec) ==
    IF Suffix(rec.path) = ".parquet"
    THEN [rec EXCEPT !.pc = "done", !.file = [path |-> rec.path, format |-> "parquet"],
                     !.ret = Resolve(rec.path)]
    ELSE [rec EXCEPT !.pc = "done", !.file = [path |-> rec.path, format |-> "csv"],
                     !.ret = Resolve(rec.path)]

\* save_async once the frame is there: the file is written in the format of
\* the extension and the resolved path returned, or ValueError is raised
Saved(rec) ==
    CASE Suffix(rec.path) = ".parquet" ->
            [rec EXCEPT !.pc = "done", !.file = [path |-> rec.path, format |-> "parquet"],
                        !.ret = Resolve(rec.path)]
      [] Suffix(rec.path) = ".csv" ->
            [rec EXCEPT !.pc = "done", !.file = [path |-> rec.path, format |-> "csv"],
                        !.ret = Resolve(rec.path)]
      [] OTHER -> Raise(rec, UnsupportedExtension(Suffix(rec.path)))

\* an operation returns normally: to the caller, or to query_async or
\* save_async, which go on
Complete(rec) ==
    IF rec.outer = "query" /\ rec.op # "stream"
    THEN GetTokenEntry(NextPhase(rec))
    ELSE IF rec.outer = "save" THEN Saved(rec)
    ELSE [rec EXCEPT !.pc = "done"]

\* mutant: response.raise_for_status() is missing
SubmitErrorNoRaise(r) ==
    CASE r.status = NetworkFailure -> Error("RequestError", NoInt, None, None)
      [] r.status = 400 -> Error("QuerySyntaxError", NoInt, r.text, None)
      [] r.status = 429 ->
            IF RetryAfter(r.retry_after).ok
            THEN Error("RateLimitError", RetryAfter(r.retry_after).val,
                       "Rate limit exceeded", None)
            ELSE Error("ValueError", NoInt, "invalid literal for int()", None)
      [] OTHER -> NoError

\* mutant: the message of QuerySyntaxError leaves out response.text
SubmitErrorNoText(r) ==
    CASE r.status = NetworkFailure -> Error("RequestError", NoInt, None, None)
      [] r.status = 400 -> Error("QuerySyntaxError", NoInt, "Invalid query", None)
      [] r.status = 429 ->
            IF RetryAfter(r.retry_after).ok
            THEN Error("RateLimitError", RetryAfter(r.retry_after).val,
                       "Rate limit exceeded", None)
            ELSE Error("ValueError", NoInt, "invalid literal for int()", None)
      [] OTHER ->
            IF Is2xx(r.status) THEN NoError
            ELSE Error("HTTPStatusError", r.status, None, None)

\* submit_async after the POST response
SubmitError(r) ==
    CASE r.status = NetworkFailure -> Error("RequestError", NoInt, None, None)
      [] r.status = 400 -> Error("QuerySyntaxError", NoInt, r.text, None)
      [] r.status = 429 ->
            IF RetryAfter(r.retry_after).ok
            THEN Error("RateLimitError", RetryAfter(r.retry_after).val,
                       "Rate limit exceeded", None)
            ELSE Error("ValueError", NoInt, "invalid literal for int()", None)
      [] OTHER ->
            IF Is2xx(r.status) THEN NoError
            ELSE Error("HTTPStatusError", r.status, None, None)

\* mutant: the status string is stored as it comes, JobStatus(...) is missing
StatusErrorAnyString(r) ==
    CASE r.status = NetworkFailure -> Error("RequestError", NoInt, None, None)
      [] ~Is2xx(r.status) -> Error("HTTPStatusError", r.status, None, None)
      [] OTHER -> NoError

\* _wait_for_job after the status response, before the status is stored
StatusError(r) ==
    CASE r.status = NetworkFailure -> Error("RequestError", NoInt, None, None)
      [] ~Is2xx(r.status) -> Error("HTTPStatusError", r.status, None, None)
      [] r.state \notin JobStatus ->
            Error("ValueError", NoInt, "is not a valid JobStatus", None)
      [] OTHER -> NoError

\* mutant: .get("numEvents") without the default
RecordCountNoDefault(r) == r.numEvents

RecordCount(r) == IF r.numEvents = NoInt THEN DefaultNumEvents ELSE r.numEvents

\* mutant: numEvents is stored with every status
PolledAlwaysCount(job, r) ==
    [job EXCEPT !.status = r.state, !.record_count = RecordCount(r)]

\* mutant: the status is stored in the COMPLETED branch only
PolledOnlyCompleted(job, r) ==
    IF r.state = S_COMPLETED
    THEN [job EXCEPT !.status = r.state, !.record_count = RecordCount(r)]
    ELSE job

\* mutant: a poll that reports another status than COMPLETED unsets the count
PolledResetsCount(job, r) ==
    IF r.state = S_COMPLETED
    THEN [job EXCEPT !.status = r.state, !.record_count = RecordCount(r)]
    ELSE [job EXCEPT !.status = r.state, !.record_count = NoInt]

\* the job after a poll that parsed: status stored, record_count on COMPLETED
Polled(job, r) ==
    IF r.state = S_COMPLETED
    THEN [job EXCEPT !.status = r.state, !.record_count = RecordCount(r)]
    ELSE [job EXCEPT !.status = r.state]

\* mutant: data["items"][0]["error"] taken as it is, without the default
JobFailureNoDefault(job, r) ==
    IF r.state = S_FAILED
    THEN Error("JobFailedError", NoInt, r.error, job.id)
    ELSE Error("JobFailedError", NoInt, "Job was canceled", job.id)

\* the JobFailedError of the FAILED and of the CANCELED branch
JobFailure(job, r) ==
    IF r.state = S_FAILED
    THEN Error("JobFailedError", NoInt,
               IF r.error = None THEN "Unknown error" ELSE r.error, job.id)
    ELSE Error("JobFailedError", NoInt, "Job was canceled", job.id)

\* mutant: the sleep grows with every poll
AfterPollBackoff(rec, job, r, t) ==
    CASE r.state = S_COMPLETED -> Complete(rec)
      [] r.state \in {S_FAILED, S_CANCELED} -> Raise(rec, JobFailure(job, r))
      [] OTHER -> [rec EXCEPT !.pc = "sleeping",
                              !.wake_at = t + rec.poll_interval * (rec.nonterm + 1),
                              !.nonterm = @ + 1]

\* the task after a poll that parsed
AfterPoll(rec, job, r, t) ==
    CASE r.state = S_COMPLETED -> Complete(rec)
      [] r.state \in {S_FAILED, S_CANCELED} -> Raise(rec, JobFailure(job, r))
      [] OTHER -> [rec EXCEPT !.pc = "sleeping", !.wake_at = t + rec.poll_interval,
                              !.nonterm = @ + 1]

\* mutant: "offset += page_size" is missing
PageEndSameOffset(rec) ==
    IF rec.total_count = NoInt \/ rec.offset >= rec.total_count
    THEN Complete(rec)
    ELSE SendPage(rec)

\* mutant: the loop goes on while offset <= total_count
PageEndInclusive(rec) ==
    LET next == [rec EXCEPT !.offset = rec.offset + rec.page_size]
    IN  IF next.total_count = NoInt \/ next.offset > next.total_count
        THEN Complete(next)
        ELSE SendPage(next)

\* mutant: a page whose metadata say isFinished is taken for the last
PageEndHonoursFinished(rec) ==
    LET next == [rec EXCEPT !.offset = rec.offset + rec.page_size]
        last == rec.pages[Len(rec.pages)]
    IN  IF \/ next.total_count = NoInt \/ next.offset >= next.total_count
           \/ last.body[1].finished = "true"
        THEN Complete(next)
        ELSE SendPage(next)

\* paginate_results after the lines of a page: offset += page_size, then
\* the end of the sequence or the next request
PageEnd(rec) ==
    LET next == [rec EXCEPT !.offset = rec.offset + rec.page_size]
    IN  IF next.total_count = NoInt \/ next.offset >= next.total_count
        THEN Complete(next)
        ELSE SendPage(next)

\* the records are collected by _get_results_as_dataframe
Eager(rec) == rec.outer \in {"query", "to_dataframe", "save"}

\* mutant: the test "if line.strip()" is missing
AdvanceNoSkip(rec) ==
    IF rec.lines = <<>> THEN PageEnd(rec)
    ELSE LET line == Head(rec.lines)
             rest == [rec EXCEPT !.lines = Tail(@)]
         IN  IF JsonLoads(line).ok
             THEN [rest EXCEPT !.pc = "yielded",
                               !.out = Append(@, JsonLoads(line).doc.id)]
             ELSE Raise(rest, Error("JSONDecodeError", NoInt, None, None))

\* mutant: the next page is requested as soon as the last record of a page
\* is yielded, before the consumer asks for more
RECURSIVE AdvanceSendsAhead(_)
AdvanceSendsAhead(rec) ==
    IF rec.lines = <<>> THEN PageEnd(rec)
    ELSE LET line == Head(rec.lines)
             rest == [rec EXCEPT !.lines = Tail(@)]
         IN  IF Strip(line) = <<>> THEN AdvanceSendsAhead(rest)
             ELSE IF JsonLoads(line).ok
             THEN IF rest.lines = <<>>
                  THEN PageEnd([rest EXCEPT !.out = Append(@, JsonLoads(line).doc.id)])
                  ELSE [rest EXCEPT !.pc = "yielded",
                                    !.out = Append(@, JsonLoads(line).doc.id)]
             ELSE Raise(rest, Error("JSONDecodeError", NoInt, None, None))

\* the for loop over lines[1:], up to the next yield, the end of the page
\* or the line that json.loads rejects
RECURSIVE Advance(_)
Advance(rec) ==
    IF rec.lines = <<>> THEN PageEnd(rec)
    ELSE LET line == Head(rec.lines)
             rest == [rec EXCEPT !.lines = Tail(@)]
         IN  IF Strip(line) = <<>> THEN Advance(rest)
             ELSE IF JsonLoads(line).ok
             THEN [rest EXCEPT !.pc = "yielded",
                               !.out = Append(@, JsonLoads(line).doc.id)]
             ELSE Raise(rest, Error("JSONDecodeError", NoInt, None, None))

\* The generator runs on to its next suspension.  _get_results_as_dataframe
\* appends each record and asks for the next at once: with it the generator
\* runs on to its next await.
RECURSIVE Resume(_)
Resume(rec) ==
    LET a == Advance(rec)
    IN  IF Eager(rec) /\ a.pc = "yielded" THEN Resume(a) ELSE a

\* client.get and response.raise_for_status() of paginate_results
PageError(r) ==
    CASE r.status = NetworkFailure -> Error("RequestError", NoInt, None, None)
      [] ~Is2xx(r.status) -> Error("HTTPStatusError", r.status, None, None)
      [] OTHER -> NoError

\* mutant: the total is taken from the metadata of the first page only
AfterBodyFirstTotal(rec, r) ==
    LET lines == Split(Strip(r.body))
        got == [rec EXCEPT !.pages = Append(@, r)]
    IN  IF lines = <<>> THEN Complete(got)
        ELSE IF ~JsonLoads(lines[1]).ok
        THEN Raise(got, Error("JSONDecodeError", NoInt, None, None))
        ELSE Resume([got EXCEPT
                !.total_count = IF rec.total_count = NoInt
                                THEN TotalEventCount(JsonLoads(lines[1]).doc)
                                ELSE rec.total_count,
                !.lines = Tail(lines)])

\* paginate_results from the text of a 2xx response to its first suspension
AfterBody(rec, r) ==
    LET lines == Split(Strip(r.body))
        got == [rec EXCEPT !.pages = Append(@, r)]
    IN  IF lines = <<>> THEN Complete(got)
        ELSE IF ~JsonLoads(lines[1]).ok
        THEN Raise(got, Error("JSONDecodeError", NoInt, None, None))
        ELSE Resume([got EXCEPT
                !.total_count = TotalEventCount(JsonLoads(lines[1]).doc),
                !.lines = Tail(lines)])

\* mutant: a page that failed is asked for again
AfterPageRetries(rec, r) ==
    IF PageError(r) # NoError THEN SendPage(rec) ELSE AfterBody(rec, r)

\* paginate_results from the response to its first suspension
AfterPage(rec, r) ==
    IF PageError(r) # NoError THEN Raise(rec, PageError(r)) ELSE AfterBody(rec, r)

\* the request the task has sent last
Asked(t) ==
    IF tasks[t].reqs = <<>> THEN [limit |-> 0, offset |-> 0]
    ELSE tasks[t].reqs[Len(tasks[t].reqs)]

-----------------------------------------------------------------------------
(* Actions *)

Init ==
    /\ now = 0
    /\ token = None
    /\ expires_at = 0
    /\ jobs = [j \in Slots |-> NoJob]
    /\ tasks = [t \in Tasks |-> IdleTask]
    /\ reply = NoReply
    /\ cleared = "no"
    /\ client = NoClient

\* the caller's code calls _get_client() in this step, or does not: the pool
\* it gets is the one held or a new one, as long as pools are left to make
UseClient(called) ==
    /\ client' = IF called THEN GetClient(client) ELSE client
    /\ client'.made <= MaxPools

\* the clock advances
Tick ==
    /\ now < MaxTime
    /\ now' = now + 1
    /\ reply' = NoReply
    /\ UNCHANGED <<token, expires_at, jobs, tasks, cleared, client>>

\* TokenManager.clear()
Clear ==
    /\ token' = ClearedCache.token
    /\ expires_at' = ClearedCache.expires_at
    /\ reply' = NoReply
    /\ cleared' = IF IsTokenValid(token, expires_at, now) THEN "valid" ELSE "invalid"
    /\ UNCHANGED <<now, jobs, tasks, client>>

\* a caller awaits TokenManager.get_token(client)
GetToken(t) ==
    /\ tasks[t].pc = "idle"
    /\ tasks' = [tasks EXCEPT ![t] = GetTokenEntry([IdleTask EXCEPT !.op = "get_token"])]
    /\ reply' = NoReply
    /\ UNCHANGED <<now, token, expires_at, jobs, cleared, client>>

\* the response to the credential exchange arrives
AuthResponse(t, r) ==
    /\ tasks[t].pc = "auth_wait"
    /\ reply' = r
    /\ IF Is2xx(r.status)
       THEN /\ token' = r.access_token
            /\ expires_at' = ExpiresAt(r, now)
            /\ cleared' = "no"
            /\ tasks' = [tasks EXCEPT ![t] = AfterToken(@, r.access_token, now)]
       ELSE /\ tasks' = [tasks EXCEPT ![t] = Raise(@, AuthFailure(r))]
            /\ UNCHANGED <<token, expires_at, cleared>>
    /\ UNCHANGED <<now, jobs>>
    /\ UseClient(Is2xx(r.status) /\ tasks[t].op # "get_token")

\* a caller awaits SearchClient.submit_async(...)
Submit(t) ==
    /\ tasks[t].pc = "idle"
    /\ Cardinality(FreeSlots) >
         Cardinality({u \in Tasks : tasks[u].op = "submit" /\ tasks[u].pc # "done"})
    /\ tasks' = [tasks EXCEPT ![t] = GetTokenEntry([IdleTask EXCEPT !.op = "submit"])]
    /\ reply' = NoReply
    /\ UNCHANGED <<now, token, expires_at, jobs, cleared>>
    /\ UseClient(TRUE)

\* the response to the POST to /search/jobs arrives
SubmitResponse(t, r) ==
    /\ tasks[t].pc = "post_wait"
    /\ reply' = r
    /\ IF SubmitError(r) = NoError
       THEN /\ jobs' = [jobs EXCEPT ![FirstFree] = NewJob(r.id)]
            /\ tasks' = [tasks EXCEPT ![t] = Complete([@ EXCEPT !.job = FirstFree])]
       ELSE /\ tasks' = [tasks EXCEPT ![t] = Raise(@, SubmitError(r))]
            /\ UNCHANGED jobs
    /\ UNCHANGED <<now, token, expires_at, cleared>>
    /\ UseClient(tasks'[t].op # tasks[t].op)

\* a caller awaits job.wait_async(p, to) on an existing job
Wait(t, j, p, to) ==
    /\ tasks[t].pc = "idle"
    /\ jobs[j] # NoJob
    /\ now <= MaxTime
    /\ tasks' = [tasks EXCEPT ![t] =
          GetTokenEntry([IdleTask EXCEPT !.op = "wait", !.job = j, !.start_time = now,
                                         !.poll_interval = p, !.timeout = to])]
    /\ reply' = NoReply
    /\ UNCHANGED <<now, token, expires_at, jobs, cleared>>
    /\ UseClient(TRUE)

\* the response to the GET of /search/jobs/{id}/status arrives
StatusResponse(t, r) ==
    /\ tasks[t].pc = "status_wait"
    /\ reply' = r
    /\ IF StatusError(r) = NoError
       THEN /\ jobs' = [jobs EXCEPT ![tasks[t].job] = Polled(@, r)]
            /\ tasks' = [tasks EXCEPT ![t] = AfterPoll(@, jobs[tasks[t].job], r, now)]
       ELSE /\ tasks' = [tasks EXCEPT ![t] = Raise(@, StatusError(r))]
            /\ UNCHANGED jobs
    /\ UNCHANGED <<now, token, expires_at, cleared>>
    /\ UseClient(tasks'[t].op # tasks[t].op)

\* asyncio.sleep(poll_interval) ends, no earlier than wake_at
Wake(t) ==
    /\ tasks[t].pc = "sleeping"
    /\ now' = Max(now, tasks[t].wake_at)
    /\ tasks' = [tasks EXCEPT ![t] = LoopHead(@, now')]
    /\ reply' = NoReply
    /\ UNCHANGED <<token, expires_at, jobs, cleared, client>>

\* a caller iterates paginate_results(client, url, h, p)
Paginate(t, p, h) ==
    /\ tasks[t].pc = "idle"
    /\ tasks' = [tasks EXCEPT ![t] =
          SendPage([IdleTask EXCEPT !.op = "paginate", !.page_size = p,
                                    !.headers = h, !.given = h])]
    /\ reply' = NoReply
    /\ UNCHANGED <<now, token, expires_at, jobs, cleared, client>>

\* the response to the GET of the results arrives
PageResponse(t, r) ==
    /\ tasks[t].pc = "page_wait"
    /\ reply' = r
    /\ tasks' = [tasks EXCEPT ![t] = AfterPage(@, r)]
    /\ Len(tasks'[t].reqs) <= MaxRequests
    /\ UNCHANGED <<now, token, expires_at, jobs, cleared, client>>

\* the consumer asks the generator for the next record
NextRecord(t) ==
    /\ tasks[t].pc = "yielded"
    /\ tasks' = [tasks EXCEPT ![t] = Resume(@)]
    /\ Len(tasks'[t].reqs) <= MaxRequests
    /\ reply' = NoReply
    /\ UNCHANGED <<now, token, expires_at, jobs, cleared, client>>

\* the consumer leaves its loop and the generator, suspended at the yield,
\* is closed: nothing of paginate_results runs any more
Abandon(t) ==
    /\ tasks[t].pc = "yielded"
    /\ tasks' = [tasks EXCEPT ![t].pc = "closed"]
    /\ reply' = NoReply
    /\ UNCHANGED <<now, token, expires_at, jobs, cleared, client>>

\* a caller awaits SearchClient.query_async(query, timeout = to)
Query(t, to) ==
    /\ tasks[t].pc = "idle"
    /\ FreeSlots # {}
    /\ tasks' = [tasks EXCEPT ![t] =
          GetTokenEntry([IdleTask EXCEPT !.op = "submit", !.outer = "query",
                                         !.timeout = to])]
    /\ reply' = NoReply
    /\ UNCHANGED <<now, token, expires_at, jobs, cleared>>
    /\ UseClient(TRUE)

\* a caller awaits job.to_dataframe_async() on an existing job
ToDataframe(t, j) ==
    /\ tasks[t].pc = "idle"
    /\ jobs[j] # NoJob
    /\ tasks' = [tasks EXCEPT ![t] =
          GetTokenEntry([IdleTask EXCEPT !.op = "stream", !.outer = "to_dataframe",
                                         !.job = j, !.page_size = DefaultPageSize])]
    /\ reply' = NoReply
    /\ UNCHANGED <<now, token, expires_at, jobs, cleared>>
    /\ UseClient(TRUE)

\* a caller awaits job.save_async(path) on an existing job
Save(t, j, path) ==
    /\ tasks[t].pc = "idle"
    /\ jobs[j] # NoJob
    /\ tasks' = [tasks EXCEPT ![t] =
          GetTokenEntry([IdleTask EXCEPT !.op = "stream", !.outer = "save",
                                         !.job = j, !.path = path,
                                         !.page_size = DefaultPageSize])]
    /\ reply' = NoReply
    /\ UNCHANGED <<now, token, expires_at, jobs, cleared>>
    /\ UseClient(TRUE)

\* a caller iterates job.stream_async() on an existing job
Stream(t, j) ==
    /\ tasks[t].pc = "idle"
    /\ jobs[j] # NoJob
    /\ tasks' = [tasks EXCEPT ![t] =
          GetTokenEntry([IdleTask EXCEPT !.op = "stream", !.outer = "stream",
                                         !.job = j, !.page_size = DefaultPageSize])]
    /\ reply' = NoReply
    /\ UNCHANGED <<now, token, expires_at, jobs, cleared>>
    /\ UseClient(TRUE)

\* async with client: __aenter__ makes a pool and holds it
Enter(t) ==
    /\ tasks[t].pc = "idle"
    /\ client.made < MaxPools
    /\ client' = NewPool(client)
    /\ reply' = NoReply
    /\ UNCHANGED <<now, token, expires_at, jobs, tasks, cleared>>

\* __aexit__ up to its await: nothing to do without a pool, otherwise
\* aclose() of the pool held is awaited
ExitStart(t) ==
    /\ tasks[t].pc = "idle"
    /\ tasks' = [tasks EXCEPT ![t] =
          IF client.cur = 0
          THEN [IdleTask EXCEPT !.op = "aexit", !.pc = "done"]
          ELSE [IdleTask EXCEPT !.op = "aexit", !.pc = "closing",
                                !.pool = client.cur]]
    /\ reply' = NoReply
    /\ UNCHANGED <<now, token, expires_at, jobs, cleared, client>>

\* aclose() is over: that pool is closed, and self._client = None
ExitDone(t) ==
    /\ tasks[t].pc = "closing"
    /\ client' = [client EXCEPT !.open = @ \ {tasks[t].pool}, !.cur = 0]
    /\ tasks' = [tasks EXCEPT ![t].pc = "done"]
    /\ reply' = NoReply
    /\ UNCHANGED <<now, token, expires_at, jobs, cleared>>

\* the caller takes the result or the exception; the coroutine is gone
Return(t) ==
    /\ tasks[t].pc = "done"
    /\ tasks' = [tasks EXCEPT ![t] = IdleTask]
    /\ reply' = NoReply
    /\ UNCHANGED <<now, token, expires_at, jobs, cleared, client>>

\* The token cache alone: concurrent get_token calls, clear() and the clock.
NextAuth ==
    \/ Tick
    \/ Clear
    \/ \E t \in Tasks : GetToken(t)
    \/ \E t \in Tasks, r \in AuthReplies : AuthResponse(t, r)
    \/ \E t \in Tasks : Return(t)

SpecAuth == Init /\ [][NextAuth]_vars

\* One caller, one operation after the other, the token cache underneath.
Caller == "t1"

\* The token cache under one caller: one get_token after the other, every
\* answer of the credential exchange, clear() and the clock.
NextRetry ==
    \/ Tick
    \/ Clear
    \/ GetToken(Caller)
    \/ \E r \in AuthReplies : AuthResponse(Caller, r)
    \/ Return(Caller)

SpecRetry == Init /\ [][NextRetry]_vars

\* Submission: every answer the jobs endpoint can give.
NextSubmit ==
    \/ Tick
    \/ Clear
    \/ \E r \in AuthReplies : AuthResponse(Caller, r)
    \/ (MaySubmit /\ Submit(Caller))
    \/ \E r \in SubmitReplies : SubmitResponse(Caller, r)
    \/ Return(Caller)

SpecSubmit == Init /\ [][NextSubmit]_vars

\* Polling: every answer the status endpoint can give, to any number of
\* wait calls on the jobs submitted before.
WaitAuthReplies ==
    {r \in AuthReplies : \/ r.status = 200 /\ r.access_token = "tok-a" /\ r.expires_in = NoInt
                         \/ r.status = 401}

WaitSubmitReplies == {r \in SubmitReplies : r.status = 200 /\ r.id = "job-a"}

NextWait ==
    \/ Tick
    \/ \E r \in WaitAuthReplies : AuthResponse(Caller, r)
    \/ (MaySubmit /\ Submit(Caller))
    \/ \E r \in WaitSubmitReplies : SubmitResponse(Caller, r)
    \/ \E j \in Slots, p \in PollIntervals, to \in Timeouts : Wait(Caller, j, p, to)
    \/ \E r \in StatusReplies : StatusResponse(Caller, r)
    \/ Wake(Caller)
    \/ Return(Caller)

SpecWait == Init /\ [][NextWait]_vars

\* Polling a job that the server never reports as finished: every exchange
\* is answered, every status answer is NEW, QUEUED or RUNNING, and every
\* sleep ends.
PollingAuthReplies == {r \in WaitAuthReplies : r.status = 200}

RunningReplies == {r \in StatusReplies : r.status = 200 /\ r.state \in NonTerminal}

NextPolling ==
    \/ Tick
    \/ \E r \in PollingAuthReplies : AuthResponse(Caller, r)
    \/ (MaySubmit /\ Submit(Caller))
    \/ \E r \in WaitSubmitReplies : SubmitResponse(Caller, r)
    \/ \E j \in Slots, p \in PollIntervals, to \in Timeouts : Wait(Caller, j, p, to)
    \/ \E r \in RunningReplies : StatusResponse(Caller, r)
    \/ Wake(Caller)
    \/ Return(Caller)

PollingFairness ==
    /\ WF_vars(\E r \in PollingAuthReplies : AuthResponse(Caller, r))
    /\ WF_vars(\E r \in RunningReplies : StatusResponse(Caller, r))
    /\ WF_vars(Wake(Caller))

SpecPolling == Init /\ [][NextPolling]_vars /\ PollingFairness

\* Pagination: every answer the results endpoint can give to every request
\* of paginate_results, the consumer taking every record.
NextPages ==
    \/ \E p \in PageSizes : Paginate(Caller, p, NoHeaders)
    \/ \E r \in PageReplies(Asked(Caller)) : PageResponse(Caller, r)
    \/ NextRecord(Caller)
    \/ Return(Caller)

SpecPages == Init /\ [][NextPages]_vars

\* every request is answered and the consumer goes on asking
PagesFairness ==
    /\ WF_vars(\E r \in PageReplies(Asked(Caller)) : PageResponse(Caller, r))
    /\ WF_vars(NextRecord(Caller))

SpecPagesFair == Init /\ [][NextPages]_vars /\ PagesFairness

\* The query workflow: every kind of answer of every endpoint to the
\* requests of query_async.  A token with expires_in = 300 is stale at once,
\* so that the exchange is repeated before the next request.
QueryAuthReplies ==
    {r \in AuthReplies :
        \/ (r.status = 200 /\ r.access_token = "tok-a" /\ r.expires_in = NoInt)
        \/ (r.status = 200 /\ r.access_token = "tok-b" /\ r.expires_in = 300)
        \/ r.status \in {401, NetworkFailure}}

QuerySubmitReplies ==
    {r \in SubmitReplies :
        \/ (r.status = 200 /\ r.id = "job-a")
        \/ (r.status = 400 /\ r.text = "boom")
        \/ (r.status = 429
            /\ r.retry_after \in {NoHeader, Header(<<"W", "e", "d", ",", " ", "2", "1">>)})
        \/ (r.status \in {500, NetworkFailure} /\ r.retry_after = NoHeader)}

\* what the status endpoint may answer to the polls of query
QueryStatusReplies ==
    {r \in StatusReplies :
        \/ r.status # 200
        \/ r.state \in {S_RUNNING, S_FAILED, S_CANCELED}
        \/ (r.state = S_COMPLETED /\ r.numEvents = 10)}

QueryPageReplies(q) ==
    {r \in PagesFor(q, QueryMetas, {<<>>}) : Len(r.ids) \in {0, 2}}
    \cup {r \in EmptyReplies : r.body = <<>>}
    \cup PageFailures

NextQuery ==
    \/ Tick
    \/ \E r \in QueryAuthReplies : AuthResponse(Caller, r)
    \/ \E to \in Timeouts : (MaySubmit /\ Query(Caller, to))
    \/ \E r \in QuerySubmitReplies : SubmitResponse(Caller, r)
    \/ \E r \in QueryStatusReplies : StatusResponse(Caller, r)
    \/ Wake(Caller)
    \/ \E r \in QueryPageReplies(Asked(Caller)) : PageResponse(Caller, r)
    \/ Return(Caller)

SpecQuery == Init /\ [][NextQuery]_vars

\* Pagination of pages that carry the isFinished flag, true or false whatever
\* the total and the records of the page are.
NextFlags ==
    \/ \E p \in PageSizes : Paginate(Caller, p, NoHeaders)
    \/ \E r \in FlaggedPageReplies(Asked(Caller)) : PageResponse(Caller, r)
    \/ NextRecord(Caller)
    \/ Return(Caller)

SpecFlags == Init /\ [][NextFlags]_vars

\* Pagination with a consumer that may stop at any record.
NextLazy ==
    \/ \E p \in PageSizes : Paginate(Caller, p, NoHeaders)
    \/ \E r \in PageReplies(Asked(Caller)) : PageResponse(Caller, r)
    \/ NextRecord(Caller)
    \/ Abandon(Caller)
    \/ Return(Caller)

SpecLazy == Init /\ [][NextLazy]_vars

\* The bearer token of a wait and of a stream, while another task calls
\* get_token and the clock goes on: a token with expires_in = 300 is stale
\* at once, one with 301 after a second.
BearerAuthReplies ==
    {r \in AuthReplies :
        \/ (r.status = 200 /\ r.access_token = "tok-a" /\ r.expires_in = 301)
        \/ (r.status = 200 /\ r.access_token = "tok-b" /\ r.expires_in = 300)}

BearerStatusReplies ==
    {r \in QueryStatusReplies : r.status = 200 /\ r.state \in {S_RUNNING, S_COMPLETED}}

BearerPageReplies(q) ==
    {r \in QueryPageReplies(q) : r.status = 200 /\ r.meta = DefaultPageSize + 1}

NextBearer ==
    \/ Tick
    \/ \E t \in Tasks, r \in BearerAuthReplies : AuthResponse(t, r)
    \/ \E t \in Tasks \ {Caller} : GetToken(t)
    \/ (MaySubmit /\ Submit(Caller))
    \/ \E r \in WaitSubmitReplies : SubmitResponse(Caller, r)
    \/ \E j \in Slots, to \in Timeouts : Wait(Caller, j, 1, to)
    \/ \E r \in BearerStatusReplies : StatusResponse(Caller, r)
    \/ Wake(Caller)
    \/ \E j \in Slots : Stream(Caller, j)
    \/ \E r \in BearerPageReplies(Asked(Caller)) : PageResponse(Caller, r)
    \/ NextRecord(Caller)
    \/ \E t \in Tasks : Return(t)

SpecBearer == Init /\ [][NextBearer]_vars

\* The headers of the results requests: paginate_results with every mapping
\* a caller may hand it, the endpoint answering as it does to query.
NextHeaders ==
    \/ \E p \in PageSizes, h \in CallerHeaders : Paginate(Caller, p, h)
    \/ \E r \in QueryPageReplies(Asked(Caller)) : PageResponse(Caller, r)
    \/ NextRecord(Caller)
    \/ Return(Caller)

SpecHeaders == Init /\ [][NextHeaders]_vars

\* The results of a job: to_dataframe, save and stream on the jobs submitted
\* before, between submissions and waits on the first job, the endpoints
\* answering as they do to query.
ResultsSubmitReplies ==
    {r \in SubmitReplies :
        \/ (r.status = 200
            /\ r.id = IF Cardinality(FreeSlots) = MaxJobs THEN "job-a" ELSE "job-b")
        \/ (r.status = 400 /\ r.text = "boom")}

ResultsStatusReplies ==
    {r \in QueryStatusReplies : r.status \in {200, 500}}

NextResults ==
    \/ \E r \in WaitAuthReplies : AuthResponse(Caller, r)
    \/ Submit(Caller)
    \/ \E r \in ResultsSubmitReplies : SubmitResponse(Caller, r)
    \/ Wait(Caller, 1, 1, 1)
    \/ \E r \in ResultsStatusReplies : StatusResponse(Caller, r)
    \/ Wake(Caller)
    \/ \E j \in Slots : ToDataframe(Caller, j)
    \/ \E j \in Slots, path \in Paths : Save(Caller, j, path)
    \/ \E j \in Slots : Stream(Caller, j)
    \/ \E r \in QueryPageReplies(Asked(Caller)) : PageResponse(Caller, r)
    \/ NextRecord(Caller)
    \/ Return(Caller)

SpecResults == Init /\ [][NextResults]_vars

\* Two operations at a time on one client: after one job for each task is
\* submitted, each task waits on a job no other task waits on, or paginates,
\* and the steps of the two interleave in every way.
ConcurrentAuthReplies == {r \in PollingAuthReplies : r.status = 200}

ConcurrentSubmitReplies == {r \in ResultsSubmitReplies : r.status = 200}

ConcurrentStatusReplies ==
    {r \in QueryStatusReplies :
        r.status = 200 /\ r.state \in {S_RUNNING, S_COMPLETED}}

ConcurrentPageReplies(q) ==
    {r \in PagesFor(q, {2}, {<<>>}) : Len(r.ids) = 1}
    \cup {r \in PageFailures : r.status = 500}

\* no other task is in a wait on job j
Unwatched(j) == \A u \in Tasks : ~(tasks[u].op = "wait" /\ tasks[u].job = j)

NextConcurrent ==
    \/ \E t \in Tasks, r \in ConcurrentAuthReplies : AuthResponse(t, r)
    \/ (Cardinality(Slots \ FreeSlots) < Cardinality(Tasks) /\ Submit(Caller))
    \/ \E r \in ConcurrentSubmitReplies : SubmitResponse(Caller, r)
    \/ \E t \in Tasks, j \in Slots : (Unwatched(j) /\ Wait(t, j, 1, 1))
    \/ \E t \in Tasks, r \in ConcurrentStatusReplies : StatusResponse(t, r)
    \/ \E t \in Tasks : Wake(t)
    \/ \E t \in Tasks, p \in PageSizes : Paginate(t, p, NoHeaders)
    \/ \E t \in Tasks : \E r \in ConcurrentPageReplies(Asked(t)) : PageResponse(t, r)
    \/ \E t \in Tasks : NextRecord(t)
    \/ \E t \in Tasks : Return(t)

SpecConcurrent == Init /\ [][NextConcurrent]_vars

-----------------------------------------------------------------------------
(* Steps, as the properties below recognise them *)

\* task t starts operation op in this step
Calls(t, op) == tasks[t].pc = "idle" /\ tasks'[t].pc # "idle" /\ tasks'[t].op = op

\* task t receives the response it awaited at position pc in this step
Receives(t, pc) == tasks[t].pc = pc /\ tasks'[t] # tasks[t]

\* task t has finished operation op
Finished(t, op) == tasks[t].op = op /\ tasks[t].pc = "done"

Remaining == expires_at - now

\* task t iterates paginate_results
Paginating(t) == tasks[t].op = "paginate" /\ tasks[t].pc # "idle"

\* the pagination of task t has come to its end without an exception
Exhausted(t) == Finished(t, "paginate") /\ tasks[t].err = NoError

\* every 2xx answer task t has received reported n as totalEventCount
Reported(t, n) ==
    /\ tasks[t].pages # <<>>
    /\ \A i \in 1..Len(tasks[t].pages) : tasks[t].pages[i].meta = n

\* every request of task t but the one in flight has had a 2xx answer
Answered(t) ==
    Len(tasks[t].pages) = Len(tasks[t].reqs) - (IF tasks[t].pc = "page_wait" THEN 1 ELSE 0)

\* every 2xx answer to task t had a body of lines: the metadata line first
WithMetadata(t) ==
    \A i \in 1..Len(tasks[t].pages) :
        tasks[t].pages[i].body =
            Body(tasks[t].pages[i].meta, tasks[t].pages[i].ids, tasks[t].pages[i].gap)

\* the records the server has put on the pages, in the order of the lines
RECURSIVE Sent(_)
Sent(pages) == IF pages = <<>> THEN <<>> ELSE Head(pages).ids \o Sent(Tail(pages))

IsPrefix(a, b) == Len(a) <= Len(b) /\ a = SubSeq(b, 1, Len(a))

\* the answers task t has received are those of a server that holds n
\* records: each reports the total n and carries the records at the
\* positions offset .. min(offset + limit, n) - 1 of the request
Honest(t, n) ==
    /\ Answered(t)
    /\ \A i \in 1..Len(tasks[t].pages) :
          /\ tasks[t].pages[i].body # <<>>
          /\ tasks[t].pages[i].meta = n
          /\ tasks[t].pages[i].ids =
                Ids(tasks[t].reqs[i].offset,
                    Min(tasks[t].reqs[i].offset + tasks[t].reqs[i].limit, n))

\* task t runs query_async
Querying(t) == tasks[t].outer = "query" /\ tasks[t].pc # "idle"

\* the HTTP requests task t has sent
Requests(rec) == rec.auths + rec.posts + rec.polls + Len(rec.reqs)

\* task t awaits the response to a request
Awaiting(t) == tasks[t].pc \in {"auth_wait", "post_wait", "status_wait", "page_wait"}

\* task t comes to the head of the polling loop in this step: the wait call
\* has its headers, or its sleep ends
AtLoopHead(t) ==
    /\ tasks'[t].op = "wait" /\ tasks'[t] # tasks[t]
    /\ \/ Calls(t, "wait") /\ tasks'[t].pc # "auth_wait"
       \/ tasks[t].pc = "auth_wait" /\ tasks'[t].err.kind # "AuthenticationError"
       \/ tasks[t].pc = "sleeping"

\* task t runs to_dataframe, save or stream of a job
OnResults(rec) == rec.outer \in {"to_dataframe", "save", "stream"} /\ rec.pc # "idle"

\* the operation is over and every results request of it was answered with
\* a page that parsed
Fetched(rec) ==
    /\ rec.pc = "done" /\ rec.reqs # <<>> /\ Len(rec.pages) = Len(rec.reqs)
    /\ rec.err.kind # "JSONDecodeError"

\* the total a page reports: its totalEventCount, 0 when it has none
TotalOf(page) == IF page.meta = NoInt THEN 0 ELSE page.meta

\* ceil(a / b)
Ceil(a, b) == (a + b - 1) \div b

-----------------------------------------------------------------------------
(* Token cache (SpecAuth) *)

\* C1: a get_token call that finds a cached token with more than 300 seconds
\* left (expiry - now > 300) returns that token at once, sends no
\* authentication request and leaves the cache as it was.
C1_ValidTokenReused ==
    [][\A t \in Tasks :
        (Calls(t, "get_token") /\ token # None /\ Remaining > 300)
        => /\ tasks'[t].pc = "done"
           /\ tasks'[t].ret = token
           /\ tasks'[t].err = NoError
           /\ tasks'[t].auths = 0
           /\ token' = token /\ expires_at' = expires_at]_vars

\* a call answered from a cache with exactly 301 seconds left
C1_Witness ==
    \E t \in Tasks :
        /\ Finished(t, "get_token") /\ tasks[t].auths = 0
        /\ tasks[t].ret = token /\ token # None /\ Remaining = 301

\* C2: a get_token call that finds no token, or a token with expiry - now <= 300,
\* sends exactly one credential exchange; when that exchange is answered with
\* a token, get_token returns the token of the answer.
C2_StaleTokenRefreshedOnce ==
    [][\A t \in Tasks :
        /\ (Calls(t, "get_token") /\ (token = None \/ Remaining <= 300))
           => (tasks'[t].pc = "auth_wait" /\ tasks'[t].auths = 1)
        /\ (Receives(t, "auth_wait") /\ tasks[t].op = "get_token")
           => /\ tasks'[t].pc = "done" /\ tasks'[t].auths = 1
              /\ reply'.status \in 200..299
                 => (tasks'[t].ret = reply'.access_token /\ tasks'[t].err = NoError)]_vars

\* a call that the cache could not answer returns the token of its own
\* exchange, another token than the one a second call was given from the cache
C2_Witness ==
    \E t \in Tasks :
        /\ Finished(t, "get_token") /\ tasks[t].auths = 1
        /\ reply.status = 200 /\ tasks[t].ret = reply.access_token
        /\ \E u \in Tasks \ {t} :
              /\ Finished(u, "get_token") /\ tasks[u].auths = 0
              /\ tasks[u].ret # tasks[t].ret

\* C3: a get_token call made while the cache is as clear() left it sends a
\* credential exchange, whether the token that clear() removed was valid or
\* not; clear() itself changes no task: it sends no request.
C3_ClearForcesReauthentication ==
    [][/\ \A t \in Tasks :
            (Calls(t, "get_token") /\ cleared # "no")
            => (tasks'[t].pc = "auth_wait" /\ tasks'[t].auths = 1)
       /\ (cleared' # "no" /\ cleared' # cleared) => tasks' = tasks]_vars

\* an exchange sent although the token removed by clear() was still valid
C3_Witness ==
    \E t \in Tasks :
        /\ cleared = "valid"
        /\ tasks[t].op = "get_token" /\ tasks[t].pc = "auth_wait" /\ tasks[t].auths = 1

\* C4: when the credential exchange is answered with a non-2xx status or fails
\* in the transport, get_token raises AuthenticationError and returns no
\* token; for a non-2xx answer the error carries the status code.
C4_ExchangeFailureIsAuthenticationError ==
    [][\A t \in Tasks :
        (Receives(t, "auth_wait") /\ reply'.status \notin 200..299)
        => /\ tasks'[t].pc = "done"
           /\ tasks'[t].ret = None
           /\ tasks'[t].err.kind = "AuthenticationError"
           /\ reply'.status # NetworkFailure => tasks'[t].err.num = reply'.status
           /\ token' = token /\ expires_at' = expires_at]_vars

\* one call failed on a 401, another on a refused connection
C4_Witness ==
    \E t, u \in Tasks :
        /\ Finished(t, "get_token") /\ Finished(u, "get_token")
        /\ tasks[t].err = Error("AuthenticationError", 401, "invalid_client", None)
        /\ tasks[u].err = Error("AuthenticationError", NoInt, "Connection refused", None)

-----------------------------------------------------------------------------
(* Submission (SpecSubmit) *)

\* C5: a submit returns a Job exactly when its POST is answered with a 2xx
\* status; the Job is a new object with the id of the answer, status NEW and
\* no record count.  Every other answer makes submit raise and creates no
\* Job, and a status other than 400 and 429 raises httpx's HTTPStatusError.
C5_JobExactlyOn2xx ==
    [][/\ \A t \in Tasks :
            Receives(t, "post_wait")
            => /\ tasks'[t].pc = "done"
               /\ IF reply'.status \in 200..299
                  THEN /\ tasks'[t].err = NoError
                       /\ tasks'[t].job \in Slots
                       /\ jobs[tasks'[t].job] = NoJob
                       /\ jobs'[tasks'[t].job] =
                            [id |-> reply'.id, status |-> S_NEW, record_count |-> NoInt]
                       /\ \A k \in Slots \ {tasks'[t].job} : jobs'[k] = jobs[k]
                  ELSE /\ tasks'[t].err # NoError
                       /\ tasks'[t].job = 0
                       /\ jobs' = jobs
                       /\ reply'.status \notin {400, 429, NetworkFailure}
                          => tasks'[t].err.kind = "HTTPStatusError"
       /\ \A t \in Tasks :
            (tasks'[t].op = "submit" /\ tasks'[t].pc = "done" /\ tasks[t].pc # "done"
             /\ tasks'[t].err = NoError)
            => (tasks[t].pc = "post_wait" /\ reply'.status \in 200..299)
       /\ jobs' # jobs
          => \E t \in Tasks : tasks[t].pc = "post_wait" /\ reply'.status \in 200..299]_vars

\* a Job made from a 201 answer naming job-b
C5_Witness ==
    \E t \in Tasks :
        /\ Finished(t, "submit") /\ tasks[t].err = NoError
        /\ "id" \in DOMAIN reply /\ reply.status = 201 /\ reply.id = "job-b"
        /\ jobs[tasks[t].job] = NewJob("job-b")

\* C6: a submit whose POST is answered with 400 raises QuerySyntaxError with
\* the response text in its message, and no Job is created.
C6_400IsQuerySyntaxError ==
    [][\A t \in Tasks :
        (Receives(t, "post_wait") /\ reply'.status = 400)
        => /\ tasks'[t].pc = "done"
           /\ tasks'[t].err = Error("QuerySyntaxError", NoInt, reply'.text, None)
           /\ tasks'[t].job = 0
           /\ jobs' = jobs]_vars

C6_Witness ==
    \E t \in Tasks :
        /\ Finished(t, "submit") /\ reply.status = 400
        /\ tasks[t].err = Error("QuerySyntaxError", NoInt, "Invalid query syntax", None)
        /\ \A j \in Slots : jobs[j] = NoJob

\* C7: a submit whose POST is answered with 429 raises RateLimitError whatever
\* the headers of the answer are, with retry_after 60 when there is no
\* Retry-After header and the number in the header when there is one.
C7_429IsRateLimitError ==
    [][\A t \in Tasks :
        (Receives(t, "post_wait") /\ reply'.status = 429)
        => /\ tasks'[t].pc = "done"
           /\ tasks'[t].err.kind = "RateLimitError"
           /\ ~reply'.retry_after.present => tasks'[t].err.num = 60
           /\ reply'.retry_after = Header(<<"1", "2", "0">>) => tasks'[t].err.num = 120]_vars

-----------------------------------------------------------------------------
(* Polling (SpecWait, SpecPolling) *)

Rank(st) ==
    CASE st = S_NEW -> 0 [] st = S_QUEUED -> 1 [] st = S_RUNNING -> 2 [] OTHER -> 3

\* b is a or lies after a in NEW -> QUEUED -> RUNNING -> {COMPLETED, FAILED, CANCELED}
Forward(a, b) == a = b \/ (a \in NonTerminal /\ Rank(b) > Rank(a))

\* C8 as claimed: whatever the server reports, the status of a Job only moves
\* forward along NEW -> QUEUED -> RUNNING -> {COMPLETED, FAILED, CANCELED}, and
\* a status of COMPLETED, FAILED or CANCELED is never changed.
C8_StatusOnlyMovesForward ==
    [][\A j \in Slots :
        jobs[j] # NoJob => Forward(jobs[j].status, jobs'[j].status)]_vars

\* C8 as amended: a Job is created with status NEW; afterwards only a status
\* poll of a wait call on that Job changes it, and every poll that parses
\* stores the status the server reported in it, forward or backward; the wait
\* call ends with the poll that stores COMPLETED, FAILED or CANCELED and
\* sleeps after any other.
C8_StatusFollowsServer ==
    [][/\ \A j \in Slots :
            jobs'[j] # jobs[j]
            => \/ jobs[j] = NoJob /\ jobs'[j].status = S_NEW
               \/ \E t \in Tasks :
                    /\ Receives(t, "status_wait") /\ tasks[t].job = j
                    /\ jobs'[j].status = reply'.state
       /\ \A t \in Tasks :
            (Receives(t, "status_wait") /\ reply'.status \in 200..299
             /\ reply'.state \in JobStatus)
            => /\ jobs'[tasks[t].job].status = reply'.state
               /\ reply'.state \in Terminal => tasks'[t].pc = "done"
               /\ reply'.state \in NonTerminal => tasks'[t].pc = "sleeping"]_vars

\* a Job that has been COMPLETED (its record count is set) and is RUNNING
\* again after a poll of a later wait call
C8_Witness ==
    \E t \in Tasks :
        /\ tasks[t].op = "wait" /\ tasks[t].pc = "sleeping"
        /\ jobs[tasks[t].job].record_count = 10
        /\ jobs[tasks[t].job].status = S_RUNNING

\* C9: a status answer of COMPLETED ends the wait call normally, with the
\* Job COMPLETED and its record count the numEvents of the answer (0 when the
\* answer has none); the call has then sent one status request more than the
\* non-terminal answers it received (k + 1 for k), and sends no other.  A wait
\* call returns normally on no other answer.
C9_CompletedAfterKPolls ==
    [][\A t \in Tasks :
        Receives(t, "status_wait")
        => /\ (reply'.status \in 200..299 /\ reply'.state = S_COMPLETED)
              => /\ tasks'[t].pc = "done" /\ tasks'[t].err = NoError
                 /\ jobs'[tasks[t].job].status = S_COMPLETED
                 /\ jobs'[tasks[t].job].record_count =
                      (IF reply'.numEvents = NoInt THEN 0 ELSE reply'.numEvents)
                 /\ tasks'[t].polls = tasks[t].polls
                 /\ tasks'[t].polls = tasks'[t].nonterm + 1
           /\ (tasks'[t].pc = "done" /\ tasks'[t].err = NoError)
              => (reply'.status \in 200..299 /\ reply'.state = S_COMPLETED)
           /\ (reply'.status \in 200..299 /\ reply'.state \in NonTerminal)
              => tasks'[t].nonterm = tasks[t].nonterm + 1]_vars

\* RUNNING, RUNNING, COMPLETED(numEvents = 10): three requests, ten records
C9_Witness ==
    \E t \in Tasks :
        /\ Finished(t, "wait") /\ tasks[t].err = NoError
        /\ tasks[t].polls = 3 /\ tasks[t].nonterm = 2
        /\ "numEvents" \in DOMAIN reply /\ reply.numEvents = 10
        /\ jobs[tasks[t].job].status = S_COMPLETED
        /\ jobs[tasks[t].job].record_count = 10

\* C10: with every status answer non-terminal, a wait call (timeout finite,
\* poll interval positive) ends by raising JobTimeoutError, whose message
\* names the id of the job and the timeout.
C10_WaitTimesOut ==
    (tasks[Caller].op = "wait" /\ tasks[Caller].pc # "done")
    ~> /\ tasks[Caller].op = "wait" /\ tasks[Caller].pc = "done"
       /\ tasks[Caller].err =
            Error("JobTimeoutError", tasks[Caller].timeout, "did not complete within",
                  jobs[tasks[Caller].job].id)

\* a timeout raised after three polls
C10_Witness ==
    /\ Finished(Caller, "wait")
    /\ tasks[Caller].err.kind = "JobTimeoutError"
    /\ tasks[Caller].err.job_id = "job-a"
    /\ tasks[Caller].err.num = tasks[Caller].timeout
    /\ tasks[Caller].polls = 3

\* C11: a status answer of FAILED makes the wait call raise JobFailedError
\* with the error text of the answer ("Unknown error" when it has none) and
\* the id of the job; an answer of CANCELED makes it raise JobFailedError
\* with a canceled message and the same id; the call is over with that
\* answer and sends no status request after it.
C11_FailedOrCanceledRaises ==
    [][\A t \in Tasks :
        /\ (Receives(t, "status_wait") /\ reply'.status \in 200..299
            /\ reply'.state \in {S_FAILED, S_CANCELED})
           => /\ tasks'[t].pc = "done"
              /\ tasks'[t].err.kind = "JobFailedError"
              /\ tasks'[t].err.job_id = jobs[tasks[t].job].id
              /\ tasks'[t].err.job_id \in JobIds
              /\ reply'.state = S_FAILED
                 => tasks'[t].err.text =
                      (IF reply'.error = None THEN "Unknown error" ELSE reply'.error)
              /\ reply'.state = S_CANCELED => tasks'[t].err.text = "Job was canceled"
              /\ tasks'[t].polls = tasks[t].polls
        /\ (Finished(t, "wait") /\ tasks[t].err.kind = "JobFailedError")
           => tasks'[t].polls \in {tasks[t].polls, 0}]_vars

\* RUNNING, then FAILED without an error text: two requests, "Unknown error"
C11_Witness ==
    \E t \in Tasks :
        /\ Finished(t, "wait") /\ tasks[t].polls = 2
        /\ "state" \in DOMAIN reply /\ reply.state = S_FAILED /\ reply.error = None
        /\ tasks[t].err = Error("JobFailedError", NoInt, "Unknown error", "job-a")

-----------------------------------------------------------------------------
(* Pagination (SpecPages) *)

\* C12: with page size P >= 1, the i-th results request of a pagination has
\* limit = P and offset = (i - 1) * P; a further request is sent only while
\* the offset is below the total reported last; and a pagination whose
\* answers all report the total T ends after max(1, ceil(T / P)) requests.
C12_RequestsFollowTotal ==
    \A t \in Tasks :
        Paginating(t)
        => /\ tasks[t].page_size >= 1
           /\ \A i \in 1..Len(tasks[t].reqs) :
                tasks[t].reqs[i] =
                    [limit |-> tasks[t].page_size, offset |-> (i - 1) * tasks[t].page_size]
           /\ (tasks[t].pc = "page_wait" /\ Len(tasks[t].reqs) > 1)
              => tasks[t].offset < tasks[t].total_count
           /\ Exhausted(t) => tasks[t].offset >= tasks[t].total_count
           /\ \A n \in 0..MaxTotal :
                (Exhausted(t) /\ Reported(t, n))
                => Len(tasks[t].reqs) = Max(1, Ceil(n, tasks[t].page_size))

\* total 3 in pages of 2: two requests, offsets 0 and 2
C12_Witness ==
    \E t \in Tasks :
        /\ Exhausted(t) /\ Reported(t, 3)
        /\ tasks[t].reqs = <<[limit |-> 2, offset |-> 0], [limit |-> 2, offset |-> 2]>>

\* C13: against a server that holds N records and answers every request
\* (limit, offset) with the total N and the records at the positions
\* offset .. min(offset + limit, N) - 1, the pagination yields the records
\* in their order, none twice, and when it ends it has yielded all N.
C13_HonestServerYieldsAll ==
    \A t \in Tasks : \A n \in 0..MaxTotal :
        (Paginating(t) /\ Honest(t, n))
        => /\ tasks[t].err = NoError
           /\ Len(tasks[t].out) <= n
           /\ tasks[t].out = Ids(0, Len(tasks[t].out))
           /\ Exhausted(t) => tasks[t].out = Ids(0, n)

\* three records fetched in pages of two
C13_Witness ==
    \E t \in Tasks :
        /\ Exhausted(t) /\ Honest(t, 3) /\ tasks[t].page_size = 2
        /\ Len(tasks[t].reqs) = 2 /\ tasks[t].out = <<1, 2, 3>>

\* C14: of a page, the first line (the metadata) is never yielded; every
\* later line that is not blank is yielded as one record, in the order of
\* the lines; blank lines and lines of blanks after the first line raise
\* nothing and change neither the order nor the number of the records.
C14_LinesYieldedInOrder ==
    \A t \in Tasks :
        (Paginating(t) /\ Answered(t) /\ WithMetadata(t))
        => /\ tasks[t].err = NoError
           /\ IsPrefix(tasks[t].out, Sent(tasks[t].pages))
           /\ tasks[t].pc \in {"page_wait", "done"} => tasks[t].out = Sent(tasks[t].pages)
           /\ tasks[t].pc = "yielded" => tasks[t].out # <<>>
           /\ \A i \in 1..Len(tasks[t].out) : tasks[t].out[i] >= 1

\* a page of two records with an empty line and a line of blanks after each line
C14_Witness ==
    \E t \in Tasks :
        /\ Exhausted(t) /\ Len(tasks[t].pages) = 1
        /\ tasks[t].pages[1].body =
              <<Doc(2, 0), NL, NL, SP, NL, SP, Doc(NoInt, 1), NL, NL, SP, NL, SP,
                Doc(NoInt, 2), NL, NL, SP, NL, SP>>
        /\ tasks[t].out = <<1, 2>>

\* C15: a results response with an empty body (no lines at all) ends the
\* pagination at once: no exception is raised, no record is yielded from
\* that response and no further request is sent.
C15_EmptyBodyEndsQuietly ==
    [][\A t \in Tasks :
        (Receives(t, "page_wait") /\ reply'.status \in 200..299 /\ reply'.body = <<>>)
        => /\ tasks'[t].pc = "done"
           /\ tasks'[t].err = NoError
           /\ tasks'[t].out = tasks[t].out
           /\ tasks'[t].reqs = tasks[t].reqs]_vars

\* C16: when the metadata line of the first page has no totalEventCount, the
\* total is taken as 0: that request stays the only one, the records of
\* the page are yielded all the same, and the pagination ends after them.
C16_AbsentTotalIsZero ==
    \A t \in Tasks :
        (Paginating(t) /\ tasks[t].pages # <<>> /\ WithMetadata(t)
         /\ tasks[t].pages[1].meta = NoInt)
        => /\ tasks[t].total_count = 0
           /\ Len(tasks[t].reqs) = 1
           /\ tasks[t].pc \in {"yielded", "done"}
           /\ tasks[t].err = NoError
           /\ IsPrefix(tasks[t].out, tasks[t].pages[1].ids)
           /\ tasks[t].pc = "done" => tasks[t].out = tasks[t].pages[1].ids

\* a first page of two records whose metadata has no total
C16_Witness ==
    \E t \in Tasks :
        /\ Exhausted(t) /\ tasks[t].page_size = 2
        /\ tasks[t].pages = <<PageReply(NoInt, <<1, 2>>, <<>>)>>
        /\ tasks[t].out = <<1, 2>> /\ Len(tasks[t].reqs) = 1

\* C17: the sequence of records is finite.  With page size P >= 1 and the
\* totals the server reports at most MaxTotal, a pagination never sends more
\* than max(1, ceil(MaxTotal / P)) requests, and, its requests answered and
\* its consumer asking on, it comes to its end.
C17_PaginationEnds ==
    /\ [](Paginating(Caller)
           => Len(tasks[Caller].reqs) <= Max(1, Ceil(MaxTotal, tasks[Caller].page_size)))
    /\ (Paginating(Caller) /\ tasks[Caller].pc \in {"page_wait", "yielded"})
          ~> Finished(Caller, "paginate")

\* the longest pagination: pages of one record, the total MaxTotal throughout
C17_Witness ==
    /\ Exhausted(Caller) /\ tasks[Caller].page_size = 1
    /\ Reported(Caller, MaxTotal)
    /\ Len(tasks[Caller].reqs) = MaxTotal /\ Len(tasks[Caller].out) = MaxTotal

-----------------------------------------------------------------------------
(* The query workflow (SpecQuery) *)

\* C18: query submits, then waits, then collects.  A status request has been
\* sent only after the submit response gave the job its id; a results
\* request has been sent only after a status poll reported COMPLETED; and
\* when submit or wait raises, query is over with that error and has sent
\* no results request.
C18_SubmitThenWaitThenCollect ==
    \A t \in Tasks :
        Querying(t)
        => /\ tasks[t].op \in {"submit", "wait", "stream"}
           /\ tasks[t].op = "submit" => (tasks[t].polls = 0 /\ tasks[t].reqs = <<>>)
           /\ tasks[t].op = "wait" => tasks[t].reqs = <<>>
           /\ tasks[t].polls > 0
              => /\ tasks[t].posts = 1 /\ tasks[t].job \in Slots
                 /\ jobs[tasks[t].job].id \in JobIds
           /\ tasks[t].reqs # <<>>
              => /\ tasks[t].polls > 0 /\ tasks[t].polls = tasks[t].nonterm + 1
                 /\ jobs[tasks[t].job].status = S_COMPLETED
           /\ (tasks[t].err # NoError /\ tasks[t].op \in {"submit", "wait"})
              => (tasks[t].pc = "done" /\ tasks[t].reqs = <<>>)
           /\ tasks[t].err # NoError => tasks[t].pc = "done"

\* a query that polled twice and collected two records from one page
C18_Witness ==
    \E t \in Tasks :
        /\ Querying(t) /\ Finished(t, "stream") /\ tasks[t].err = NoError
        /\ tasks[t].posts = 1 /\ tasks[t].polls = 2
        /\ Len(tasks[t].reqs) = 1 /\ tasks[t].out = <<1, 2>>

\* C19: no request is retried.  A credential exchange, a submit, a status
\* poll or a results request that fails (a transport failure, or an answer
\* that is not 2xx) ends the operation in that step with an exception, no
\* request added; and an operation that has ended with an exception sends
\* nothing any more: the caller takes the exception.
C19_NoRequestIsRetried ==
    [][\A t \in Tasks :
        /\ (Awaiting(t) /\ tasks'[t] # tasks[t] /\ ~Is2xx(reply'.status))
           => /\ tasks'[t].pc = "done"
              /\ tasks'[t].err.kind \in
                    {"AuthenticationError", "QuerySyntaxError", "RateLimitError",
                     "ValueError", "HTTPStatusError", "RequestError"}
              /\ tasks'[t].err.kind = "HTTPStatusError" => tasks'[t].err.num = reply'.status
              /\ Requests(tasks'[t]) = Requests(tasks[t])
              /\ tasks'[t].out = tasks[t].out
        /\ (tasks[t].pc = "done" /\ tasks[t].err # NoError)
           => tasks'[t] \in {tasks[t], IdleTask}]_vars

\* a query whose second results request was answered 500: the records of
\* the first page are collected, no third request is sent
C19_Witness ==
    \E t \in Tasks :
        /\ Querying(t) /\ Finished(t, "stream")
        /\ tasks[t].err = Error("HTTPStatusError", 500, None, None)
        /\ tasks[t].reqs = <<[limit |-> DefaultPageSize, offset |-> 0],
                             [limit |-> DefaultPageSize, offset |-> DefaultPageSize]>>
        /\ tasks[t].out = <<1, 2>>

-----------------------------------------------------------------------------
(* Concurrent get_token calls (SpecAuth) *)

\* C20: a get_token call that finds no valid token sends its own credential
\* exchange, also while the exchange of another call is in flight; each call
\* returns the token of the answer to its own exchange; and every exchange
\* that is answered with a token writes that token and its expiry into the
\* cache, over whatever an earlier exchange wrote, so that after the calls
\* the cache holds what the exchange answered last wrote.
C20_ConcurrentCallsEachAuthenticate ==
    [][/\ \A t \in Tasks :
            /\ (Calls(t, "get_token") /\ (token = None \/ Remaining <= 300)
                /\ \E u \in Tasks \ {t} : tasks[u].pc = "auth_wait")
               => (tasks'[t].pc = "auth_wait" /\ tasks'[t].auths = 1)
            /\ (Receives(t, "auth_wait") /\ reply'.status \in 200..299)
               => /\ tasks'[t].ret = reply'.access_token
                  /\ tasks'[t].ret \in Tokens
                  /\ tasks'[t].auths = 1
                  /\ token' = reply'.access_token
                  /\ expires_at' = now + (IF reply'.expires_in = NoInt THEN 86400
                                           ELSE reply'.expires_in)
                  /\ \A u \in Tasks \ {t} : tasks'[u] = tasks[u]
       /\ (token' # token \/ expires_at' # expires_at)
          => \/ \E t \in Tasks : Receives(t, "auth_wait") /\ reply'.status \in 200..299
             \/ (token' = None /\ expires_at' = 0)]_vars

\* two calls that each sent one exchange and each returned the token of its
\* own answer; tok-b with expires_in = 302 was answered last and is what the
\* cache holds
C20_Witness ==
    /\ Finished("t1", "get_token") /\ Finished("t2", "get_token")
    /\ tasks["t1"].auths = 1 /\ tasks["t2"].auths = 1
    /\ tasks["t1"].ret = "tok-a" /\ tasks["t2"].ret = "tok-b"
    /\ "access_token" \in DOMAIN reply /\ reply.access_token = "tok-b"
    /\ token = "tok-b" /\ expires_at = now + 302 /\ cleared = "no"

-----------------------------------------------------------------------------
(* The fields of a Job (SpecWait) *)

\* C22: a Job is created without a record count, and its record count is
\* assigned only by the status poll of a wait call on it that is answered
\* COMPLETED; a poll answered FAILED, CANCELED or with a failure, a sleep
\* that ends in the timeout and every other step leave it as it was.
C22_RecordCountOnlyOnCompleted ==
    [][\A j \in Slots :
        /\ (jobs[j] = NoJob /\ jobs'[j] # NoJob) => jobs'[j].record_count = NoInt
        /\ jobs'[j].record_count # jobs[j].record_count
           => \E t \in Tasks :
                /\ Receives(t, "status_wait") /\ tasks[t].job = j
                /\ reply'.status \in 200..299 /\ reply'.state = S_COMPLETED]_vars

\* a Job that was COMPLETED with ten records, and a later wait on it that
\* ended with FAILED: the ten records are still its count
C22_Witness ==
    \E t \in Tasks :
        /\ Finished(t, "wait") /\ tasks[t].err.kind = "JobFailedError"
        /\ jobs[tasks[t].job].status = S_FAILED
        /\ jobs[tasks[t].job].record_count = 10

\* C28: at the head of every iteration of wait the elapsed time is compared
\* with the timeout before anything is sent: when it exceeds the timeout,
\* JobTimeoutError is raised and the call has sent its last status request;
\* otherwise exactly one status request is sent.
C28_TimeoutCheckedBeforeRequest ==
    [][\A t \in Tasks :
        /\ AtLoopHead(t)
           => IF now' - tasks'[t].start_time > tasks'[t].timeout
              THEN /\ tasks'[t].pc = "done"
                   /\ tasks'[t].err.kind = "JobTimeoutError"
                   /\ tasks'[t].polls = tasks[t].polls
              ELSE /\ tasks'[t].pc = "status_wait"
                   /\ tasks'[t].polls = tasks[t].polls + 1
        /\ (Finished(t, "wait") /\ tasks[t].err.kind = "JobTimeoutError")
           => tasks'[t] \in {tasks[t], IdleTask}]_vars

\* a wait with timeout 1 whose sleep of 2 seconds ended after the timeout:
\* one status request, and none when the sleep was over
C28_Witness ==
    \E t \in Tasks :
        /\ Finished(t, "wait") /\ tasks[t].err.kind = "JobTimeoutError"
        /\ tasks[t].timeout = 1 /\ tasks[t].poll_interval = 2
        /\ tasks[t].polls = 1 /\ tasks[t].nonterm = 1
        /\ now - tasks[t].start_time = 2

\* C29: a status answer of NEW, QUEUED or RUNNING is followed by one sleep
\* of poll_interval seconds, the poll_interval of the call and the same
\* after every answer, and the next status request is sent when that sleep
\* ends; an answer of COMPLETED, FAILED or CANCELED is followed by no sleep.
C29_OneSleepBetweenPolls ==
    [][\A t \in Tasks :
        /\ (Receives(t, "status_wait") /\ reply'.status \in 200..299
            /\ reply'.state \in NonTerminal)
           => /\ tasks'[t].pc = "sleeping"
              /\ tasks'[t].wake_at = now + tasks[t].poll_interval
              /\ tasks'[t].polls = tasks[t].polls
        /\ (Receives(t, "status_wait") /\ reply'.status \in 200..299
            /\ reply'.state \in Terminal)
           => tasks'[t].pc = "done"
        /\ (tasks[t].op = "wait" /\ tasks[t].pc # "idle" /\ tasks'[t].pc # "idle")
           => tasks'[t].poll_interval = tasks[t].poll_interval
        /\ (tasks[t].pc = "sleeping" /\ tasks'[t] # tasks[t])
           => /\ now' >= tasks[t].wake_at
              /\ tasks'[t].pc \in {"status_wait", "done"}
              /\ tasks'[t].polls <= tasks[t].polls + 1
        /\ (tasks[t].op = "wait" /\ tasks[t].pc = "status_wait")
           => tasks[t].polls = tasks[t].nonterm + 1
        /\ (tasks[t].op = "wait" /\ tasks[t].pc = "sleeping")
           => tasks[t].polls = tasks[t].nonterm]_vars

\* the second sleep of a wait call with poll_interval 1, as long as the first
C29_Witness ==
    \E t \in Tasks :
        /\ tasks[t].op = "wait" /\ tasks[t].pc = "sleeping"
        /\ tasks[t].poll_interval = 1 /\ tasks[t].nonterm = 2 /\ tasks[t].polls = 2
        /\ tasks[t].wake_at = now + 1

-----------------------------------------------------------------------------
(* The expiry of the cached token (SpecAuth) *)

\* C26: a credential exchange answered at time t with a token and
\* expires_in = E (86400 when the answer has none) leaves that token in the
\* cache with the expiry t + E; and while the cache holds a token with the
\* expiry X, a get_token call at a time before X - 300 returns that token
\* without an exchange, a call at X - 300 or later sends one.
C26_ExpiryIsNowPlusExpiresIn ==
    [][\A t \in Tasks :
        /\ (Receives(t, "auth_wait") /\ reply'.status \in 200..299)
           => /\ token' = reply'.access_token
              /\ reply'.expires_in # NoInt => expires_at' = now + reply'.expires_in
              /\ reply'.expires_in = NoInt => expires_at' = now + 86400
        /\ (Calls(t, "get_token") /\ token # None /\ now < expires_at - 300)
           => /\ tasks'[t].pc = "done" /\ tasks'[t].ret = token
              /\ tasks'[t].auths = 0
              /\ token' = token /\ expires_at' = expires_at
        /\ (Calls(t, "get_token") /\ now >= expires_at - 300)
           => (tasks'[t].pc = "auth_wait" /\ tasks'[t].auths = 1)]_vars

\* the token of an exchange answered at time 0 with expires_in = 302, reused
\* by a call at time 1, the last second before 0 + 302 - 300
C26_Witness ==
    \E t \in Tasks :
        /\ Finished(t, "get_token") /\ tasks[t].auths = 0
        /\ tasks[t].ret = token /\ token \in Tokens
        /\ expires_at = 302 /\ now = 1

-----------------------------------------------------------------------------
(* The total that ends a pagination (SpecPages) *)

\* C30 as claimed: the total of the first page decides how many pages are
\* requested, whatever the metadata of the later pages say: a pagination
\* that comes to its end has sent max(1, ceil(T1 / P)) requests, T1 the
\* total of its first page.
C30_FirstPageTotalDecides ==
    \A t \in Tasks :
        (Exhausted(t) /\ Answered(t) /\ WithMetadata(t))
        => Len(tasks[t].reqs) = Max(1, Ceil(TotalOf(tasks[t].pages[1]), tasks[t].page_size))

\* C30 as amended: the total is read again from the metadata of every page,
\* and the total of the page fetched last decides: page i + 1 is requested
\* exactly when i * P is below the total that page i reported, whatever the
\* earlier pages reported.
C30_LastPageTotalDecides ==
    \A t \in Tasks :
        (Paginating(t) /\ Answered(t) /\ WithMetadata(t))
        => /\ tasks[t].pages # <<>>
              => tasks[t].total_count = TotalOf(tasks[t].pages[Len(tasks[t].pages)])
           /\ \A i \in 1..Len(tasks[t].pages) :
                i < Len(tasks[t].reqs) => i * tasks[t].page_size < TotalOf(tasks[t].pages[i])
           /\ Exhausted(t)
              => Len(tasks[t].reqs) * tasks[t].page_size
                    >= TotalOf(tasks[t].pages[Len(tasks[t].pages)])

\* pages of one record: the first page reports 3, the second reports 2, and
\* the pagination ends after the second
C30_Witness ==
    \E t \in Tasks :
        /\ Exhausted(t) /\ tasks[t].page_size = 1 /\ Len(tasks[t].reqs) = 2
        /\ Len(tasks[t].pages) = 2
        /\ tasks[t].pages[1].meta = 3 /\ tasks[t].pages[2].meta = 2

-----------------------------------------------------------------------------
(* The headers of the results requests (SpecHeaders) *)

\* C27 as claimed: every results request carries Accept:
\* application/x-ndjson and every header the caller supplied, with the value
\* the caller gave it, and the caller's mapping stays as it was.
C27_AllCallerHeadersSent ==
    \A t \in Tasks :
        /\ tasks[t].headers = tasks[t].given
        /\ \A i \in 1..Len(tasks[t].sent) :
            /\ tasks[t].sent[i]["Accept"] = NdjsonAccept
            /\ \A n \in HeaderNames :
                tasks[t].given[n].present => tasks[t].sent[i][n] = tasks[t].given[n]

\* C27 as amended: every results request carries Accept:
\* application/x-ndjson, in place of an Accept header the caller supplied,
\* and every other header of the caller with its value and no header
\* besides; the caller's mapping stays as it was.
C27_AcceptReplacesCallerAccept ==
    \A t \in Tasks :
        /\ tasks[t].headers = tasks[t].given
        /\ Len(tasks[t].sent) = Len(tasks[t].reqs)
        /\ \A i \in 1..Len(tasks[t].sent) :
            /\ tasks[t].sent[i]["Accept"] = NdjsonAccept
            /\ \A n \in HeaderNames \ {"Accept"} :
                tasks[t].sent[i][n] = tasks[t].given[n]

\* two requests of a caller who supplied Authorization and Accept
C27_Witness ==
    \E t \in Tasks :
        /\ Paginating(t) /\ Len(tasks[t].sent) = 2
        /\ tasks[t].given["Authorization"] = Header(<<"Bearer", "x">>)
        /\ tasks[t].given["Accept"] = Header(<<"application/json">>)
        /\ tasks[t].sent[2]["Authorization"] = Header(<<"Bearer", "x">>)
        /\ tasks[t].sent[2]["Accept"] = NdjsonAccept

-----------------------------------------------------------------------------
(* The results of a job (SpecResults) *)

\* C23: a Job changes only by a status poll of a wait on it: to_dataframe,
\* save and stream change no Job in any of their steps, whether they end
\* well or with an error, and a submission changes no Job that exists, it
\* only makes a new one.
C23_OnlyPollingMutatesJob ==
    [][/\ \A t \in Tasks :
            (tasks'[t] # tasks[t] /\ (OnResults(tasks[t]) \/ OnResults(tasks'[t])))
            => jobs' = jobs
       /\ \A j \in Slots :
            jobs'[j] # jobs[j]
            => \/ /\ jobs[j] = NoJob
                  /\ jobs'[j].status = S_NEW /\ jobs'[j].record_count = NoInt
                  /\ \E t \in Tasks : Receives(t, "post_wait") /\ tasks[t].op = "submit"
               \/ \E t \in Tasks :
                    /\ Receives(t, "status_wait") /\ tasks[t].op = "wait"
                    /\ tasks[t].job = j
                    /\ jobs'[j].id = jobs[j].id]_vars

\* a save has written its file, after a second job was submitted, and the
\* first job is as its wait left it
C23_Witness ==
    \E t \in Tasks :
        /\ Finished(t, "stream") /\ tasks[t].outer = "save" /\ tasks[t].job = 1
        /\ tasks[t].file # NoFile
        /\ jobs[1] = [id |-> "job-a", status |-> S_COMPLETED, record_count |-> 10]
        /\ jobs[2] = NewJob("job-b")

\* C24: a save to a path whose extension is neither .parquet nor .csv writes
\* no file and ends with an error; once the results are there the error is
\* the ValueError whose message names the extension and both supported
\* ones.  A save to a .parquet or .csv path whose results are there has
\* written the file in that format and returned the resolved path.
C24_SaveChecksExtension ==
    \A t \in Tasks :
        (tasks[t].outer = "save" /\ tasks[t].pc # "idle")
        => LET rec == tasks[t]
               ext == IF Len(rec.path) > 1 THEN rec.path[Len(rec.path)] ELSE ""
           IN  IF ext \in {".parquet", ".csv"}
               THEN IF Fetched(rec)
                    THEN /\ rec.err.kind = None
                         /\ rec.file.path = rec.path
                         /\ rec.file.format = (IF ext = ".csv" THEN "csv" ELSE "parquet")
                         /\ rec.ret = <<"/cwd/">> \o rec.path
                    ELSE rec.file = NoFile
               ELSE /\ rec.file = NoFile
                    /\ rec.pc = "done" => rec.err.kind # None
                    /\ Fetched(rec)
                       => /\ rec.err.kind = "ValueError"
                          /\ \E i, j, k \in 1..Len(rec.err.text) :
                                /\ rec.err.text[i] = ext
                                /\ rec.err.text[j] = ".parquet"
                                /\ rec.err.text[k] = ".csv"

\* two records were collected and the save to out.json ended with the
\* ValueError, no file written
C24_Witness ==
    \E t \in Tasks :
        /\ tasks[t].outer = "save" /\ Fetched(tasks[t])
        /\ tasks[t].path = <<"out", ".json">>
        /\ Len(tasks[t].out) = 2
        /\ tasks[t].err.kind = "ValueError"
        /\ tasks[t].file = NoFile

\* C25: to_dataframe on a job that is not completed raises JobFailedError.
C25_ToDataframeNeedsCompleted ==
    \A t \in Tasks :
        (tasks[t].outer = "to_dataframe" /\ tasks[t].pc # "idle"
            /\ jobs[tasks[t].job].status # S_COMPLETED)
        => (tasks[t].pc = "done" /\ tasks[t].err.kind = "JobFailedError")

-----------------------------------------------------------------------------
(* Two operations at a time (SpecConcurrent) *)

\* C21: in every interleaving of two operations each step belongs to one of
\* them and leaves the other's state alone; a job changes only by the answer
\* to a poll of the wait on it, to what that answer and the job's own
\* state give (the status reported, and numEvents or 0 with COMPLETED); and
\* what a pagination has requested and yielded follows from its page size and
\* from the pages it was answered with: request i asks for offset
\* (i - 1) * P, and the records yielded are those of its own pages, in order.
C21_OperationsDoNotInterfere ==
    [][/\ \A t, u \in Tasks : (tasks'[t] # tasks[t] /\ u # t) => tasks'[u] = tasks[u]
       /\ \A j \in Slots :
            (jobs[j] # NoJob /\ jobs'[j] # jobs[j])
            => \E t \in Tasks :
                /\ Receives(t, "status_wait") /\ tasks[t].job = j
                /\ \A k \in Slots \ {j} : jobs'[k] = jobs[k]
                /\ jobs'[j].id = jobs[j].id
                /\ jobs'[j].status = reply'.state
                /\ jobs'[j].record_count =
                      IF reply'.state # S_COMPLETED THEN jobs[j].record_count
                      ELSE IF reply'.numEvents = NoInt THEN 0 ELSE reply'.numEvents
       /\ \A t \in Tasks :
            (tasks'[t].op = "paginate" /\ tasks'[t].pc # "idle")
            => LET rec == tasks'[t]
               IN  /\ \A i \in 1..Len(rec.reqs) :
                        rec.reqs[i] = [limit |-> rec.page_size,
                                       offset |-> (i - 1) * rec.page_size]
                   /\ Len(rec.pages) \in {Len(rec.reqs) - 1, Len(rec.reqs)}
                   /\ IsPrefix(rec.out, Sent(rec.pages))
                   /\ rec.pc \in {"page_wait", "done"} => rec.out = Sent(rec.pages)]_vars

\* a wait on the first job has polled and sleeps while a pagination has got
\* its first page and sent its second request
C21_Witness ==
    \E t, u \in Tasks :
        /\ tasks[t].op = "wait" /\ tasks[t].pc = "sleeping" /\ tasks[t].job = 1
        /\ jobs[1].status = S_RUNNING
        /\ tasks[u].op = "paginate" /\ tasks[u].pc = "page_wait"
        /\ Len(tasks[u].reqs) = 2 /\ tasks[u].out = <<1>>

-----------------------------------------------------------------------------
(* Laziness of the pagination (SpecLazy) *)

\* C31: a results request after the first is sent only in a step in which no
\* record is handed over, and when it is sent every record of every page
\* answered so far has been handed to the consumer; while the generator is
\* suspended at a yield only the consumer's asking for the next record makes
\* it go on; and once the consumer has stopped, no request is sent and
\* nothing of the pagination changes any more.
C31_PaginationIsLazy ==
    [][\A t \in Tasks :
        /\ (tasks[t].reqs # <<>> /\ Len(tasks'[t].reqs) > Len(tasks[t].reqs))
           => /\ Len(tasks'[t].reqs) = Len(tasks[t].reqs) + 1
              /\ tasks'[t].out = tasks[t].out
              /\ tasks'[t].out = Sent(tasks'[t].pages)
              /\ Len(tasks'[t].pages) = Len(tasks[t].reqs)
              /\ tasks[t].pc \in {"yielded", "page_wait"}
              /\ tasks[t].pc = "yielded" => tasks[t].lines = <<>> \/ tasks'[t].lines = <<>>
        /\ (tasks[t].pc = "yielded" /\ tasks'[t] # tasks[t] /\ tasks'[t].pc # "closed")
           => reply' = NoReply
        /\ tasks[t].pc = "closed" => tasks'[t] = tasks[t]]_vars

\* the first page of two records announced three; the consumer took one
\* record and stopped, and the second page was never asked for
C31_Witness ==
    \E t \in Tasks :
        /\ tasks[t].pc = "closed" /\ tasks[t].page_size = 2
        /\ Len(tasks[t].reqs) = 1 /\ tasks[t].pages[1].meta = 3
        /\ tasks[t].pages[1].ids = <<1, 2>> /\ tasks[t].out = <<1>>

-----------------------------------------------------------------------------
(* The cache after a failed exchange (SpecRetry) *)

\* C32: the step in which a credential exchange fails leaves token and expiry
\* as they are, and they are still what makes get_token send an exchange (no
\* token, or 300 seconds or less to its expiry); the cache comes to hold a
\* usable token only by an exchange that succeeds; and every get_token that
\* finds the cache without a usable token sends an exchange: so does the
\* next one after the failure.
C32_FailedExchangeKeepsCache ==
    [][/\ (Receives(Caller, "auth_wait") /\ reply'.status \notin 200..299)
          => /\ token' = token /\ expires_at' = expires_at
             /\ tasks'[Caller].err.kind = "AuthenticationError"
             /\ (token' = None \/ expires_at' - now' <= 300)
       /\ ((token = None \/ expires_at - now <= 300)
              /\ ~(token' = None \/ expires_at' - now' <= 300))
          => (Receives(Caller, "auth_wait") /\ reply'.status \in 200..299)
       /\ (Calls(Caller, "get_token") /\ (token = None \/ expires_at - now <= 300))
          => (tasks'[Caller].pc = "auth_wait" /\ tasks'[Caller].auths = 1)]_vars

\* an exchange made for a token that had come to its last 300 seconds failed,
\* and the token and its expiry are still in the cache
C32_Witness ==
    /\ Finished(Caller, "get_token") /\ tasks[Caller].auths = 1
    /\ tasks[Caller].err.kind = "AuthenticationError"
    /\ reply.status = 500
    /\ token = "tok-b" /\ expires_at = 301 /\ now = 1

-----------------------------------------------------------------------------
(* The cache under get_token and clear() in any order (SpecAuth) *)

\* C33: a get_token that returns normally returns a token of the server; and
\* token and expiry change together only: both to what one successful
\* exchange answered (its token, and the time of the answer plus its
\* expires_in, 86400 without one), or both to the cleared values, so no
\* expiry is ever left in the cache without its token.
C33_TokenAndExpiryBelongTogether ==
    [][/\ \A t \in Tasks :
            (tasks'[t].op = "get_token" /\ tasks[t].pc # "done"
                /\ tasks'[t].pc = "done" /\ tasks'[t].err = NoError)
            => tasks'[t].ret \in Tokens
       /\ (token = None => expires_at = 0) /\ (token' = None => expires_at' = 0)
       /\ (token' # token \/ expires_at' # expires_at)
          => \/ (token' = None /\ expires_at' = 0 /\ tasks' = tasks)
             \/ \E t \in Tasks :
                    /\ Receives(t, "auth_wait") /\ reply'.status \in 200..299
                    /\ token' = reply'.access_token
                    /\ expires_at' = now + (IF reply'.expires_in = NoInt THEN 86400
                                                ELSE reply'.expires_in)]_vars

\* a call has its token from its own exchange, clear() has emptied the cache
\* since, and the other call's exchange is still on its way
C33_Witness ==
    \E t, u \in Tasks :
        /\ Finished(t, "get_token") /\ tasks[t].ret \in Tokens /\ tasks[t].auths = 1
        /\ token = None /\ expires_at = 0 /\ cleared # "no"
        /\ tasks[u].op = "get_token" /\ tasks[u].pc = "auth_wait"

-----------------------------------------------------------------------------
(* The bearer token of one call (SpecBearer) *)

\* C34: a wait call and a stream obtain their token before their first
\* request and never again: no credential exchange is awaited once a request
\* of the call is sent, at most one is sent for the call, the token of the
\* call stays what it is, and every status request and every results request
\* of the call carries that token, whatever has become of the cache since.
C34_OneTokenPerCall ==
    [][\A t \in Tasks :
        (tasks'[t].op \in {"wait", "stream"} /\ tasks'[t].pc # "idle")
        => LET rec == tasks'[t]
           IN  /\ rec.auths <= 1
               /\ rec.pc = "auth_wait" => rec.sent = <<>>
               /\ Len(rec.sent) = rec.polls + Len(rec.reqs)
               /\ rec.sent # <<>> => rec.hdr \in Tokens
               /\ (tasks[t].pc \notin {"idle", "auth_wait"}) => rec.hdr = tasks[t].hdr
               /\ \A i \in 1..Len(rec.sent) :
                    rec.sent[i]["Authorization"] = Header(<<"Bearer", rec.hdr>>)]_vars

\* a wait that got tok-a sends its second status request with it, when
\* tok-a is in its last 300 seconds and the cache holds tok-b of another call
C34_Witness ==
    /\ tasks[Caller].op = "wait" /\ tasks[Caller].pc = "status_wait"
    /\ tasks[Caller].polls = 2 /\ tasks[Caller].hdr = "tok-a"
    /\ tasks[Caller].sent[2]["Authorization"] = Header(<<"Bearer", "tok-a">>)
    /\ token = "tok-b"
    /\ now - tasks[Caller].start_time >= 1

-----------------------------------------------------------------------------
(* Polls that end in an error that is no job outcome (SpecWait) *)

\* C35: a status poll answered with a non-2xx status, not answered at all, or
\* answered with a status string that is none of the six of JobStatus makes
\* the wait call raise (HTTPStatusError, RequestError, ValueError) and
\* leaves every job, the polled one too, as it was before the poll.
C35_PollErrorLeavesJob ==
    [][\A t \in Tasks :
        (Receives(t, "status_wait")
            /\ (reply'.status \notin 200..299 \/ reply'.state \notin JobStatus))
        => /\ tasks'[t].pc = "done"
           /\ tasks'[t].err.kind =
                 (IF reply'.status = 0 THEN "RequestError"
                  ELSE IF reply'.status \notin 200..299 THEN "HTTPStatusError"
                  ELSE "ValueError")
           /\ jobs' = jobs]_vars

\* a job COMPLETED with ten records by an earlier wait; a later wait on it was
\* answered with an unknown status string: the job is as it was
C35_Witness ==
    \E t \in Tasks :
        /\ Finished(t, "wait") /\ tasks[t].err.kind = "ValueError"
        /\ reply.status = 200 /\ reply.state = "bogus"
        /\ jobs[tasks[t].job].status = S_COMPLETED
        /\ jobs[tasks[t].job].record_count = 10

-----------------------------------------------------------------------------
(* The record count and the status of a Job (SpecWait) *)

\* C36 as claimed: in every state a Job that has a record count has the
\* status COMPLETED.
C36_CountOnlyIfCompleted ==
    \A j \in Slots : jobs[j].record_count # NoInt => jobs[j].status = S_COMPLETED

\* C36 as amended: a Job whose status is COMPLETED has a record count; a Job
\* gets or changes its record count only in a step that makes its status
\* COMPLETED; and the count once set stays set, also when a later wait on the
\* Job stores another status.
C36_CountSetWhenCompletedAndKept ==
    [][\A j \in Slots :
        /\ jobs'[j].status = S_COMPLETED => jobs'[j].record_count # NoInt
        /\ jobs'[j].record_count # jobs[j].record_count
           => (jobs'[j].status = S_COMPLETED /\ jobs'[j].record_count # NoInt)
        /\ jobs[j].record_count # NoInt
           => (jobs'[j].record_count # NoInt /\ jobs'[j].id = jobs[j].id)]_vars

\* a Job that a first wait left COMPLETED with ten records and a second wait
\* found RUNNING: it still has its ten records
C36_Witness ==
    \E j \in Slots : jobs[j].status = S_RUNNING /\ jobs[j].record_count = 10

-----------------------------------------------------------------------------
(* Where and how wait compares the time (SpecWait) *)

\* C37: JobTimeoutError is raised only at the head of an iteration and only
\* when the time since the start of the call is strictly more than the
\* timeout: with the timeout just reached the status request is sent.  A
\* status answer that comes when the timeout is exceeded is acted upon like
\* any other: COMPLETED ends the call normally, FAILED and CANCELED raise
\* JobFailedError, another status sends the call to sleep.
C37_TimeoutOnlyAtIterationStart ==
    [][\A t \in Tasks :
        /\ (tasks'[t].op = "wait" /\ tasks'[t].err.kind = "JobTimeoutError"
                /\ tasks[t].pc # "done")
           => (AtLoopHead(t) /\ now' - tasks'[t].start_time > tasks'[t].timeout)
        /\ (AtLoopHead(t) /\ now' - tasks'[t].start_time = tasks'[t].timeout)
           => tasks'[t].pc = "status_wait"
        /\ (Receives(t, "status_wait") /\ reply'.status \in 200..299
                /\ now - tasks[t].start_time > tasks[t].timeout)
           => /\ reply'.state = S_COMPLETED
                 => /\ tasks'[t].pc = "done" /\ tasks'[t].err = NoError
                    /\ jobs'[tasks[t].job].status = S_COMPLETED
              /\ reply'.state \in {S_FAILED, S_CANCELED}
                 => tasks'[t].pc = "done" /\ tasks'[t].err.kind = "JobFailedError"
              /\ reply'.state \in NonTerminal => tasks'[t].pc = "sleeping"]_vars

\* a wait with timeout 0 whose only status request was answered COMPLETED a
\* second after the start: it returned normally
C37_Witness ==
    \E t \in Tasks :
        /\ Finished(t, "wait") /\ tasks[t].err = NoError /\ tasks[t].polls = 1
        /\ tasks[t].timeout = 0 /\ now - tasks[t].start_time >= 1
        /\ reply.status = 200 /\ reply.state = S_COMPLETED
        /\ jobs[tasks[t].job].status = S_COMPLETED

-----------------------------------------------------------------------------
(* What the offsets and the stop test depend on (SpecFlags) *)

\* C38: request number i of a pagination (i = 1, 2, ...) asks for offset
\* (i - 1) * P with limit P, however many records the pages before it held
\* and whatever their isFinished said; and after a page the pagination goes
\* on exactly when the offset after it, the number of pages times P, is
\* below the totalEventCount of that page (0 without one): it ends there
\* otherwise, whether isFinished is true, false or absent and whether the
\* page was full, short or empty.
C38_OffsetsAndStopTest ==
    [][\A t \in Tasks :
        (tasks'[t].op = "paginate" /\ tasks'[t].pc # "idle")
        => LET rec == tasks'[t]
               n == Len(rec.pages)
           IN  /\ \A i \in 1..Len(rec.reqs) :
                    rec.reqs[i] = [limit |-> rec.page_size,
                                   offset |-> (i - 1) * rec.page_size]
               /\ (n > 0 /\ rec.pc \in {"page_wait", "done"})
                  => IF n * rec.page_size < TotalOf(rec.pages[n])
                     THEN rec.pc = "page_wait" /\ Len(rec.reqs) = n + 1
                     ELSE rec.pc = "done" /\ Len(rec.reqs) = n
                          /\ rec.err = NoError]_vars

\* pages of two records asked for; the first answer held one record, said
\* isFinished and announced three: the second request asks for offset 2
C38_Witness ==
    \E t \in Tasks :
        /\ tasks[t].op = "paginate" /\ tasks[t].pc = "page_wait"
        /\ tasks[t].page_size = 2 /\ Len(tasks[t].reqs) = 2
        /\ tasks[t].pages[1].ids = <<1>> /\ tasks[t].pages[1].meta = 3
        /\ tasks[t].pages[1].body[1].finished = "true"
        /\ tasks[t].reqs[2].offset = 2

-----------------------------------------------------------------------------
(* An operation whose token cannot be obtained *)

\* submit, wait and stream on a client whose cache is cleared at any moment,
\* so that each of them may have to exchange the credentials, and the
\* exchange may be refused or fail in transport
NoTokenAuthReplies ==
    WaitAuthReplies
        \cup {r \in AuthReplies : r.status = NetworkFailure}

NextNoToken ==
    \/ Clear
    \/ \E r \in NoTokenAuthReplies : AuthResponse(Caller, r)
    \/ Submit(Caller)
    \/ \E r \in ConcurrentSubmitReplies : SubmitResponse(Caller, r)
    \/ Wait(Caller, 1, 1, 1)
    \/ \E r \in ConcurrentStatusReplies : StatusResponse(Caller, r)
    \/ Wake(Caller)
    \/ \E j \in Slots : Stream(Caller, j)
    \/ \E r \in ConcurrentPageReplies(Asked(Caller)) : PageResponse(Caller, r)
    \/ NextRecord(Caller)
    \/ Return(Caller)

SpecNoToken == Init /\ [][NextNoToken]_vars

\* C40: when the credential exchange made at the start of a submit, a wait
\* or a stream (to_dataframe and save too) fails, the operation ends with
\* AuthenticationError having sent no request to the jobs, status or results
\* endpoint, and every job is as it was: none created, none changed.
C40_NoTokenNoRequest ==
    [][\A t \in Tasks :
        (Receives(t, "auth_wait") /\ reply'.status \notin 200..299
            /\ tasks[t].op \in {"submit", "wait", "stream"})
        => /\ tasks'[t].pc = "done"
           /\ tasks'[t].err.kind = "AuthenticationError"
           /\ tasks'[t].posts = 0 /\ tasks'[t].polls = 0
           /\ tasks'[t].reqs = <<>> /\ tasks'[t].sent = <<>>
           /\ tasks'[t].out = <<>> /\ tasks'[t].file = NoFile
           /\ jobs' = jobs]_vars

\* a wait on a job that an earlier wait left RUNNING could not get its
\* token: no status request, the job still RUNNING
C40_Witness ==
    \E t \in Tasks :
        /\ Finished(t, "wait") /\ tasks[t].err.kind = "AuthenticationError"
        /\ tasks[t].polls = 0 /\ tasks[t].auths = 1
        /\ jobs[tasks[t].job].status = S_RUNNING

-----------------------------------------------------------------------------
(* The connection pool of the client *)

\* The client used with and without its async context: tasks enter and
\* leave the context at any moment while one of them submits.
NextPool ==
    \/ \E t \in Tasks : Enter(t)
    \/ \E t \in Tasks : ExitStart(t)
    \/ \E t \in Tasks : ExitDone(t)
    \/ Submit(Caller)
    \/ \E r \in ConcurrentAuthReplies : AuthResponse(Caller, r)
    \/ \E r \in ConcurrentSubmitReplies : SubmitResponse(Caller, r)
    \/ \E t \in Tasks : Return(t)

SpecPool == Init /\ [][NextPool]_vars

\* C39: when an exit of the async context completes, every pool the client
\* has made is closed, and the pool the client holds is never replaced by
\* another one while it is open.
C39_PoolsClosedAndNotReplaced ==
    [][/\ (\E t \in Tasks : tasks[t].pc = "closing" /\ tasks'[t].pc = "done")
            => client'.open = {}
       /\ (client.cur \in client.open /\ client'.cur # client.cur)
            => client'.cur = 0]_vars

====
